---- MODULE Spec2Model ----
(***************************************************************************)
(* Actions of nix-installer, each held in a StatefulAction and driven by    *)
(* try_execute / try_revert.  The composites ConfigureShellProfile and      *)
(* PlaceNixConfiguration own children (CreateDirectory,                     *)
(* CreateOrInsertIntoFile, CreateOrMergeNixConfig), StatefulAction values   *)
(* whose own execute/revert bodies end in one of three ways: they return    *)
(* Ok, they return an ActionError, or they panic.  The leaf actions         *)
(* (ConfigureInitService, CreateNixGcService, CreateNixOptimizeService,     *)
(* EncryptApfsVolume, MountApfsVolume, FetchAndUnpackNix, MoveUnpackedNix)  *)
(* read and change the target system themselves.                            *)
(***************************************************************************)
EXTENDS Integers, Sequences, FiniteSets, TLC

\* ------------------------------------------------------------------ bounds
\* Longest create_directories / create_or_insert_into_files list of a
\* deserialized ConfigureShellProfile, and the number of try_execute /
\* try_revert calls the driver makes on one action; the steps that fail
\* within one revert of ConfigureInitService.
MaxDirs == 2
MaxFiles == 2
MaxCalls == 2
MaxFailures == 2
\* try_execute / try_revert calls made on one launchd service action.
MaxServiceCalls == 3
\* try_execute / try_revert calls made on a leaf action read back from a plan
\* file.
MaxResumedCalls == 1
\* Entries of the store directory of the unpacked tarball.
MaxEntries == 2

\* ------------------------------------------------------------ ActionState
Uncompleted == "Uncompleted"
Completed == "Completed"
ActionState == {Uncompleted, Completed}

\* How the body of a child's execute or revert ends.
Outcomes == {"ok", "err", "panic"}

\* ------------------------------------------------------------ ActionError
\* An ActionError pairs an action tag with an ActionErrorKind.  `inner` holds
\* the ActionErrors the kind carries (one for Child, several for
\* MultipleChildren), `id` tells the leaf errors of different children apart.
TagOf(kind) ==
    CASE kind = "dir" -> "create_directory"
      [] kind = "file" -> "create_or_insert_into_file"
      [] OTHER -> kind

\* The error a child's own execute or revert body returns.
ChildError(kind, i) ==
    [tag |-> TagOf(kind), kind |-> "Custom", id |-> i, inner |-> << >>]

\* Action::error applied to an ActionError: From<ActionError> for
\* ActionErrorKind boxes it as a child of a new ActionError with Self's tag.
ActionErrorOf(tag, e) ==
    [tag |-> tag, kind |-> "Child", id |-> 0, inner |-> <<e>>]

\* Action::error(ActionErrorKind::MultipleChildren(errors)).
MultipleChildren(tag, errs) ==
    [tag |-> tag, kind |-> "MultipleChildren", id |-> 0, inner |-> errs]

\* Action::error applied to the JoinError of task i.
JoinErrorOf(tag, i) ==
    [tag |-> tag, kind |-> "Join", id |-> i, inner |-> << >>]

ResultOk == [ok |-> TRUE, err |-> << >>]
ResultErr(e) == [ok |-> FALSE, err |-> <<e>>]

\* --------------------------------------------------------- StatefulAction
\* A try_execute that runs the body whatever the recorded state.
TryExecuteNeverSkips(s) == FALSE

\* try_execute: Completed returns Ok without invoking execute; otherwise
\* execute is invoked and only its success moves the state to Completed.
TryExecuteSkips(s) == s = Completed
StateAfterExecute(s, out) == IF out = "ok" THEN Completed ELSE s

\* try_revert: symmetric, gated on Uncompleted.
TryRevertSkips(s) == s = Uncompleted
StateAfterRevert(s, out) == IF out = "ok" THEN Uncompleted ELSE s

\* From<A> for StatefulAction<A> (the `.into()` ending plan).
PlannedState == Uncompleted

\* --------------------------------------------------------------- the state
VARIABLES
    system,                       \* the target system, as the action sees it
    args,                         \* the arguments plan was given
    this,                         \* the fields of a leaf action
    before,                       \* the system when the body of execute began
    receipt,                      \* the serialized action and what is read back
    subject,                      \* the action the driver holds
    origin,                       \* how it was built: plan or deserialization
    pc,                           \* position of the driver / the running body
    state,                        \* ActionState of the composite
    create_directories,           \* ConfigureShellProfile.create_directories
    create_or_insert_into_files,  \* ConfigureShellProfile.create_or_insert_into_files
    place_nix_configuration,      \* PlaceNixConfiguration's two children
    set,                          \* the JoinSet: one task per file child
    done,                         \* finished tasks in completion order
    errors,                       \* the body's local `errors` vector
    idx,                          \* index of the sequential loop
    result,                       \* what the last try_execute/try_revert gave
    log,                          \* try_* calls made on children in this call
    prev,                         \* summary of the call before
    calls                         \* try_* calls the driver has made

vars == <<system, args, this, before, receipt, subject, origin, pc, state, create_directories, create_or_insert_into_files,
          place_nix_configuration, set, done, errors, idx, result, log, prev,
          calls>>

CSP == "configure_shell_profile"
PNC == "place_nix_configuration"

\* ------------------------------------------------------------ the variants
\* The other variants.
CIS == "configure_init_service"
GC == "create_nix_gc_service"
OPT == "create_nix_optimize_service"
ENC == "encrypt_apfs_volume"
MNT == "mount_apfs_volume"
FETCH == "fetch_and_unpack_nix"
MOVE == "move_unpacked_nix"
Variants == {CSP, PNC, CIS, GC, OPT, ENC, MNT, FETCH, MOVE}

\* The variants whose execute and revert bodies are modelled.
Driven == Variants

\* The calls the driver makes on an action of variant v.
CallsAllowed(v, o) ==
    IF v \in {GC, OPT} THEN MaxServiceCalls
    ELSE IF v \in {CIS, ENC} /\ o = "deserialized" THEN MaxResumedCalls
    ELSE MaxCalls

\* Action::action_tag of each variant.
ActionTag(v) ==
    CASE v = CSP -> "configure_shell_profile"
      [] v = PNC -> "place_nix_configuration"
      [] v = CIS -> "configure_init_service"
      [] v = GC -> "create_nix_gc_service"
      [] v = OPT -> "create_nix_optimize_service"
      [] v = ENC -> "encrypt_apfs_volume"
      [] v = MNT -> "mount_apfs_volume"
      [] v = FETCH -> "fetch_and_unpack_nix"
      [] v = MOVE -> "move_unpacked_nix"

\* The name #[typetag::serde(name = "..")] gives a variant in its serialized
\* form.
TypetagName(v) ==
    CASE v = CSP -> "configure_shell_profile"
      [] v = PNC -> "place_nix_configuration"
      [] v = CIS -> "configure_init_service"
      [] v = GC -> "create_nix_gc_service"
      [] v = OPT -> "create_nix_optimize_service"
      [] v = ENC -> "encrypt_volume"
      [] v = MNT -> "unmount_volume"
      [] v = FETCH -> "fetch_and_unpack_nix"
      [] v = MOVE -> "mount_unpacked_nix"

\* ------------------------------------------------------ the target system
\* What a variant reads and changes on the machine it runs on.

\* The system of a machine on which no plan runs: the composite is read back
\* from its serialized form and none of its code looks at the profile files.
Unexamined == [examined |-> FALSE]

\* ~/.zshrc exists, can be read, already holds the sourcing line;
\* ~/.zshrc.d/.nixrc is a symlink; ~/.zshrc.d exists.
ConfigureShellProfileSystems ==
    {s \in [zshrc_exists : BOOLEAN, zshrc_readable : BOOLEAN,
            zshrc_contains : BOOLEAN, is_symlink : BOOLEAN,
            parent_exists : BOOLEAN] :
        /\ s.zshrc_readable => s.zshrc_exists
        /\ s.zshrc_contains => s.zshrc_readable
        /\ s.is_symlink => s.parent_exists}

\* /etc/nix and /etc/nix/nix.conf exist.
PlaceNixConfigurationSystems ==
    {s \in [nix_conf_folder : BOOLEAN, nix_conf : BOOLEAN] :
        s.nix_conf => s.nix_conf_folder}

\* A systemd unit: what lies at its destination under /etc/systemd/system
\* (nothing, the symlink to the unit under /nix, another symlink, a file),
\* whether the override directory <dest>.d exists, whether the unit is wanted
\* by a target (the symlinks `systemctl enable` makes) and whether it is
\* active.
UnitPlaces == {"absent", "link_src", "link_other", "file"}
\* Only a unit installed from /nix is taken to be wanted or active.
Units ==
    {u \in [dest : UnitPlaces, dropin : BOOLEAN, wanted : BOOLEAN, active : BOOLEAN] :
        (u.wanted \/ u.active) => u.dest = "link_src"}

\* booted: /run/systemd/system exists; systemctl: `systemctl` is on the PATH;
\* tmpfiles: /etc/tmpfiles.d/nix-daemon.conf exists.
ConfigureInitServiceSystems ==
    [booted : BOOLEAN, systemctl : BOOLEAN, service : Units, socket : Units,
     tmpfiles : BOOLEAN]

\* On macOS the daemon's plist under /nix/var/nix/profiles/default (src) and
\* its copy under ~/Library/LaunchAgents (dest): absent, as Nix ships it (it
\* names /var/log/nix-daemon.log), with the log path replaced by one under
\* the home directory, or empty.  loaded: launchd holds the service in the
\* gui domain; disabled: the domain has it disabled.
DaemonPlists == {"absent", "original", "rewritten", "empty"}
ConfigureInitServiceLaunchdSystems ==
    {s \in [src : DaemonPlists, dest : DaemonPlists, loaded : BOOLEAN,
            disabled : BOOLEAN] :
        /\ s.src \in {"absent", "original"}
        /\ s.loaded => s.dest /= "absent"}
OnMacos(sys) == sys \in ConfigureInitServiceLaunchdSystems

\* The plist under ~/Library/LaunchAgents: absent, empty, the bytes
\* generate_plist gives, other bytes that parse to the same plist, a different
\* plist, or bytes that do not parse to a plist of this shape.
PlistFiles == {"absent", "empty", "expected", "equivalent", "different", "garbage"}

\* root: ~/Library/LaunchAgents exists; loaded: `launchctl print` finds the
\* service in the gui domain.
CreateNixGcServiceSystems ==
    {s \in [root : BOOLEAN, plist : PlistFiles, loaded : BOOLEAN] :
        ~s.root => s.plist = "absent"}

\* password: the keychain holds the volume's password; volume: the APFS
\* volume of the requested name as `diskutil apfs list` shows it.
\* item: the password the keychain item holds; passphrase: the one the volume
\* is encrypted with ("old": one made before this run, "generated": the one
\* execute generates).
Passwords == {"none", "old", "generated"}
EncryptApfsVolumeSystems ==
    {s \in [password : BOOLEAN, volume : {"absent", "plain", "encrypted"},
            item : Passwords, passphrase : Passwords] :
        /\ s.item = (IF s.password THEN "old" ELSE "none")
        /\ s.passphrase = (IF s.volume = "encrypted" THEN "old" ELSE "none")}

\* exists: diskutil knows a volume of the name; mount_point: it is mounted.
MountApfsVolumeSystems ==
    {s \in [exists : BOOLEAN, mount_point : BOOLEAN] : s.mount_point => s.exists}
\* ssl_cert_parses: the file settings.ssl_cert_file names holds a certificate.
FetchAndUnpackNixSystems == [ssl_cert_parses : BOOLEAN, unpacked : BOOLEAN]
\* An entry of the unpacked store, by name.  src: what is at
\* <unpacked>/nix-*/store/<name>, the directory of the package, the back link
\* execute leaves, or nothing; dest: what is at /nix/store/<name>, nothing,
\* another directory of that name, the directory moved from the unpacked
\* store, or the back link moved there (a symlink to its own path).
\* The unpacked store as the tarball gives it, before any execute.
UnpackedStores ==
    UNION {[1..n -> [src : {"dir"}, dest : {"absent", "other"}]] : n \in 0..MaxEntries}
\* unpacked: the scratch directory holds the one nix-* directory of the
\* tarball; dest_store: /nix/store exists; entries: the entries of the
\* unpacked store.
MoveUnpackedNixSystems ==
    {s \in [unpacked : BOOLEAN, dest_store : BOOLEAN, entries : UnpackedStores] :
        ~s.dest_store => \A i \in DOMAIN s.entries : s.entries[i].dest = "absent"}

SystemsOf(v) ==
    CASE v = CSP -> ConfigureShellProfileSystems \cup {Unexamined}
      [] v = PNC -> PlaceNixConfigurationSystems
      [] v = CIS -> ConfigureInitServiceSystems \cup ConfigureInitServiceLaunchdSystems
      [] v \in {GC, OPT} -> CreateNixGcServiceSystems
      [] v = ENC -> EncryptApfsVolumeSystems
      [] v = MNT -> MountApfsVolumeSystems
      [] v = FETCH -> FetchAndUnpackNixSystems
      [] v = MOVE -> MoveUnpackedNixSystems

\* Before plan has run: no arguments given, no action built, nothing
\* serialized.
NoArgs == [given |-> FALSE]
NoFields == [planned |-> FALSE]
NoReceipt == [written |-> FALSE, read |-> FALSE, action_name |-> "none",
              state |-> Uncompleted, variant |-> "none", restored |-> Uncompleted]

NoResult == [op |-> "none", ran |-> FALSE, ok |-> TRUE, panicked |-> FALSE,
             err |-> << >>]
CallResult(op, ran, r) ==
    [op |-> op, ran |-> ran, ok |-> r.ok, panicked |-> FALSE, err |-> r.err]
Panicked(op) ==
    [op |-> op, ran |-> TRUE, ok |-> FALSE, panicked |-> TRUE, err |-> << >>]

LogEntry(op, kind, i, out) == [op |-> op, kind |-> kind, i |-> i, out |-> out]

\* What is kept of a call once the next one starts: how it ended and the
\* try_* calls it made on children, without their order.
Summary(r, l) ==
    [op |-> r.op, ran |-> r.ran, ok |-> r.ok, log |-> {l[k] : k \in DOMAIN l}]

SeqsUpTo(S, n) == UNION {[1..k -> S] : k \in 0..n}

NoChildren == [create_directory |-> Uncompleted,
               create_or_merge_nix_config |-> Uncompleted]

Init ==
    /\ subject \in Variants
    /\ system \in SystemsOf(subject)
    /\ args = NoArgs
    /\ this = NoFields
    /\ before = system
    /\ receipt = NoReceipt
    /\ origin = "none"
    /\ pc = "new"
    /\ state = Uncompleted
    /\ create_directories = << >>
    /\ create_or_insert_into_files = << >>
    /\ place_nix_configuration = NoChildren
    /\ set = << >>
    /\ done = << >>
    /\ errors = << >>
    /\ idx = 0
    /\ result = NoResult
    /\ log = << >>
    /\ prev = Summary(NoResult, << >>)
    /\ calls = 0

\* ------------------------------------------------------------------- plan
\* A child's plan function gives the child Uncompleted, gives it Completed
\* (the target is already as wanted), or fails.
PlanOutcomes == ActionState \cup {"error"}

PlanFailed(sys) ==
    [ok |-> FALSE, dirs |-> << >>, files |-> << >>, state |-> Uncompleted,
     system |-> sys]

\* A plan that marks the composite Completed when it has planned no child.
ConfigureShellProfilePlanCompletesEmpty(sys, pz, pd, pf) ==
    LET zshrc_exists == sys.zshrc_exists
        zshrc_readable == sys.zshrc_readable
        zshrc_contains == sys.zshrc_contains
        is_symlink == sys.is_symlink
        parent_exists == sys.parent_exists
        editZshrc == zshrc_exists /\ ~zshrc_contains
        files1 == IF editZshrc THEN <<pz>> ELSE << >>
        dirs2 == IF ~is_symlink /\ ~parent_exists THEN <<pd>> ELSE << >>
        files2 == IF ~is_symlink THEN files1 \o <<pf>> ELSE files1
    IN  IF zshrc_exists /\ ~zshrc_readable THEN PlanFailed(sys)
        ELSE IF editZshrc /\ pz = "error" THEN PlanFailed(sys)
        ELSE IF ~is_symlink /\ ~parent_exists /\ pd = "error" THEN PlanFailed(sys)
        ELSE IF ~is_symlink /\ pf = "error" THEN PlanFailed(sys)
        ELSE [ok |-> TRUE, dirs |-> dirs2, files |-> files2,
              state |-> IF dirs2 = << >> /\ files2 = << >>
                        THEN Completed ELSE PlannedState,
              system |-> sys]

\* A plan that plans the write to ~/.zshrc.d/.nixrc without the directory.
ConfigureShellProfilePlanWithoutDirectory(sys, pz, pd, pf) ==
    LET editZshrc == sys.zshrc_exists /\ ~sys.zshrc_contains
        files1 == IF editZshrc THEN <<pz>> ELSE << >>
        files2 == IF ~sys.is_symlink THEN files1 \o <<pf>> ELSE files1
    IN  IF sys.zshrc_exists /\ ~sys.zshrc_readable THEN PlanFailed(sys)
        ELSE IF editZshrc /\ pz = "error" THEN PlanFailed(sys)
        ELSE IF ~sys.is_symlink /\ pf = "error" THEN PlanFailed(sys)
        ELSE [ok |-> TRUE, dirs |-> << >>, files |-> files2,
              state |-> PlannedState, system |-> sys]

\* ConfigureShellProfile::plan.  sys: the profile files as plan finds them;
\* pz, pd, pf: what the plan of the .zshrc edit, of the directory and of the
\* .nixrc edit gives.
ConfigureShellProfilePlan(sys, pz, pd, pf) ==
    LET zshrc_exists == sys.zshrc_exists
        zshrc_readable == sys.zshrc_readable
        zshrc_contains == sys.zshrc_contains
        is_symlink == sys.is_symlink
        parent_exists == sys.parent_exists
        editZshrc == zshrc_exists /\ ~zshrc_contains
        files1 == IF editZshrc THEN <<pz>> ELSE << >>
        dirs2 == IF ~is_symlink /\ ~parent_exists THEN <<pd>> ELSE << >>
        files2 == IF ~is_symlink THEN files1 \o <<pf>> ELSE files1
    IN  IF zshrc_exists /\ ~zshrc_readable THEN PlanFailed(sys)
        ELSE IF editZshrc /\ pz = "error" THEN PlanFailed(sys)
        ELSE IF ~is_symlink /\ ~parent_exists /\ pd = "error" THEN PlanFailed(sys)
        ELSE IF ~is_symlink /\ pf = "error" THEN PlanFailed(sys)
        ELSE [ok |-> TRUE, dirs |-> dirs2, files |-> files2,
              state |-> PlannedState, system |-> sys]

PlanConfigureShellProfile ==
    /\ pc = "new"
    /\ subject = CSP
    /\ system /= Unexamined
    /\ \E pz, pd, pf \in PlanOutcomes :
          LET p == ConfigureShellProfilePlan(system, pz, pd, pf)
          IN  /\ pc' = IF p.ok THEN "idle" ELSE "plan_failed"
              /\ create_directories' = p.dirs
              /\ create_or_insert_into_files' = p.files
              /\ state' = p.state
              /\ system' = p.system
    /\ origin' = "plan"
    /\ UNCHANGED <<args, this, before, receipt, subject, place_nix_configuration,
                   set, done, errors, idx, result, log, prev, calls>>

\* A ConfigureShellProfile read back from its serialized form: the two child
\* lists have any length the document gives them.
DeserializeConfigureShellProfile ==
    /\ pc = "new"
    /\ subject = CSP
    /\ system = Unexamined
    /\ create_directories' \in SeqsUpTo(ActionState, MaxDirs)
    /\ create_or_insert_into_files' \in SeqsUpTo(ActionState, MaxFiles)
    /\ state' = Uncompleted
    /\ pc' = "idle"
    /\ origin' = "deserialized"
    /\ UNCHANGED <<system, args, this, before, receipt, subject, place_nix_configuration, set, done, errors, idx,
                   result, log, prev, calls>>

\* PlaceNixConfiguration::plan: the settings are read and merged (any failure
\* there ends plan with an error), then the two children are planned.
PlaceNixConfigurationPlan(sys, settings_ok, pd, pm) ==
    IF ~settings_ok \/ pd = "error" \/ pm = "error"
    THEN [ok |-> FALSE, children |-> NoChildren, system |-> sys]
    ELSE [ok |-> TRUE,
          children |-> [create_directory |-> pd,
                        create_or_merge_nix_config |-> pm],
          system |-> sys]

PlanPlaceNixConfiguration ==
    /\ pc = "new"
    /\ subject = PNC
    /\ \E settings_ok \in BOOLEAN, pd, pm \in PlanOutcomes :
          LET p == PlaceNixConfigurationPlan(system, settings_ok, pd, pm)
          IN  /\ pc' = IF p.ok THEN "idle" ELSE "plan_failed"
              /\ place_nix_configuration' = p.children
              /\ system' = p.system
    /\ state' = PlannedState
    /\ origin' = "plan"
    /\ UNCHANGED <<args, this, before, receipt, subject, create_directories,
                   create_or_insert_into_files, set, done, errors, idx, result,
                   log, prev, calls>>

\* ------------------------------------------------- plan of the leaf actions
\* What a plan function gives: the StatefulAction it returns (its state and
\* the fields of the action) or the kind of its error, and the target system
\* as plan leaves it.
Planned(st, fields, sys) ==
    [ok |-> TRUE, err |-> "none", state |-> st, this |-> fields, system |-> sys]
PlanError(kind, sys) ==
    [ok |-> FALSE, err |-> kind, state |-> Uncompleted, this |-> NoFields, system |-> sys]

\* Self::error(kind): an ActionError of the action's tag holding the kind.
ActionErrorNew(tag, kind) == [tag |-> tag, kind |-> kind, id |-> 0, inner |-> << >>]

\* plan has returned p after being given the arguments a.
PlanReturns(p, a) ==
    /\ pc' = IF p.ok THEN "idle" ELSE "plan_failed"
    /\ state' = p.state
    /\ this' = p.this
    /\ system' = p.system
    /\ args' = a
    /\ result' = CallResult("plan", TRUE,
                    IF p.ok THEN ResultOk ELSE ResultErr(ActionErrorNew(subject, p.err)))
    /\ origin' = "plan"
    /\ UNCHANGED <<before, receipt, subject, create_directories,
                   create_or_insert_into_files, place_nix_configuration, set,
                   done, errors, idx, log, prev, calls>>

\* ConfigureInitService::check_if_systemd_unit_exists.
CheckIfSystemdUnitExists(unit) ==
    IF unit.dest = "link_other" THEN "SymlinkExists"
    ELSE IF unit.dest = "file" THEN "FileExists"
    ELSE IF unit.dropin THEN "DirExists"
    ELSE "ok"

\* InitSystem: Systemd and None on Linux, Launchd on macOS.
InitSystems == {"Systemd", "None"}
InitSystemsOn(sys) == IF OnMacos(sys) THEN {"Launchd"} ELSE InitSystems

\* ConfigureInitService::plan.
ConfigureInitServicePlan(sys, init, start_daemon) ==
    LET fields == [init |-> init, start_daemon |-> start_daemon]
    IN  IF init = "Systemd"
        THEN IF ~sys.booted THEN PlanError("SystemdMissing", sys)
             ELSE IF ~sys.systemctl THEN PlanError("SystemdMissing", sys)
             ELSE IF CheckIfSystemdUnitExists(sys.service) /= "ok"
                  THEN PlanError(CheckIfSystemdUnitExists(sys.service), sys)
             ELSE IF CheckIfSystemdUnitExists(sys.socket) /= "ok"
                  THEN PlanError(CheckIfSystemdUnitExists(sys.socket), sys)
             ELSE Planned(PlannedState, fields, sys)
        ELSE Planned(PlannedState, fields, sys)

PlanConfigureInitService ==
    /\ pc = "new"
    /\ subject = CIS
    /\ \E init \in InitSystemsOn(system), start_daemon \in BOOLEAN :
          PlanReturns(ConfigureInitServicePlan(system, init, start_daemon),
                      [init |-> init, start_daemon |-> start_daemon])

\* plist::from_file, and the plist generate_plist builds.
GeneratePlist == "expected_plist"
ParsePlist(file) ==
    CASE file \in {"expected", "equivalent"} -> "expected_plist"
      [] file = "different" -> "other_plist"
      [] OTHER -> "error"

\* A plan that takes the file it finds equal to the expected plist for work
\* still to do.
CreateNixGcServicePlanNeverCompleted(sys, launchctl_runs) ==
    IF ~launchctl_runs THEN PlanError("Command", sys)
    ELSE IF sys.plist /= "absent" /\ ParsePlist(sys.plist) = "error"
         THEN PlanError("Plist", sys)
    ELSE IF sys.plist /= "absent" /\ ParsePlist(sys.plist) /= GeneratePlist
         THEN PlanError("DifferentPlist", sys)
    ELSE Planned(Uncompleted, [needs_bootout |-> sys.loaded], sys)

\* A plan that replaces the file it finds different by the expected one.
CreateNixGcServicePlanOverwrites(sys, launchctl_runs) ==
    IF ~launchctl_runs THEN PlanError("Command", sys)
    ELSE IF sys.plist /= "absent" /\ ParsePlist(sys.plist) = "error"
         THEN PlanError("Plist", sys)
    ELSE IF sys.plist /= "absent" /\ ParsePlist(sys.plist) /= GeneratePlist
         THEN Planned(Completed, [needs_bootout |-> sys.loaded],
                      [sys EXCEPT !.plist = "expected"])
    ELSE IF sys.plist /= "absent"
         THEN Planned(Completed, [needs_bootout |-> sys.loaded], sys)
    ELSE Planned(Uncompleted, [needs_bootout |-> sys.loaded], sys)

\* CreateNixGcService::plan.  launchctl_runs: `launchctl print` could be
\* spawned; whether it finds the service decides needs_bootout.
CreateNixGcServicePlan(sys, launchctl_runs) ==
    IF ~launchctl_runs THEN PlanError("Command", sys)
    ELSE IF sys.plist /= "absent" /\ ParsePlist(sys.plist) = "error"
         THEN PlanError("Plist", sys)
    ELSE IF sys.plist /= "absent" /\ ParsePlist(sys.plist) /= GeneratePlist
         THEN PlanError("DifferentPlist", sys)
    ELSE IF sys.plist /= "absent"
         THEN Planned(Completed, [needs_bootout |-> sys.loaded], sys)
    ELSE Planned(Uncompleted, [needs_bootout |-> sys.loaded], sys)

\* CreateNixOptimizeService::plan.
CreateNixOptimizeServicePlan(sys, launchctl_runs) ==
    IF ~launchctl_runs THEN PlanError("Command", sys)
    ELSE IF sys.plist /= "absent" /\ ParsePlist(sys.plist) = "error"
         THEN PlanError("Plist", sys)
    ELSE IF sys.plist /= "absent" /\ ParsePlist(sys.plist) /= GeneratePlist
         THEN PlanError("DifferentPlist", sys)
    ELSE IF sys.plist /= "absent"
         THEN Planned(Completed, [needs_bootout |-> sys.loaded], sys)
    ELSE Planned(Uncompleted, [needs_bootout |-> sys.loaded], sys)

PlanCreateNixGcService ==
    /\ pc = "new"
    /\ subject = GC
    /\ \E launchctl_runs \in BOOLEAN :
          PlanReturns(CreateNixGcServicePlan(system, launchctl_runs),
                      [launchctl_runs |-> launchctl_runs])

PlanCreateNixOptimizeService ==
    /\ pc = "new"
    /\ subject = OPT
    /\ \E launchctl_runs \in BOOLEAN :
          PlanReturns(CreateNixOptimizeServicePlan(system, launchctl_runs),
                      [launchctl_runs |-> launchctl_runs])

\* A plan that takes a password it finds for that of the volume whether or
\* not the volume was created before.
EncryptApfsVolumePlanTrustsPassword(sys, planned_create_apfs_volume, security_runs, diskutil_runs) ==
    IF ~security_runs THEN PlanError("Command", sys)
    ELSE IF sys.password THEN Planned(Completed, [planned |-> TRUE], sys)
    ELSE IF planned_create_apfs_volume = Completed
         THEN PlanError("MissingPasswordForExistingVolume", sys)
    ELSE IF ~diskutil_runs THEN PlanError("Command", sys)
    ELSE IF sys.volume = "encrypted" THEN PlanError("ExistingVolumeNotEncrypted", sys)
    ELSE IF sys.volume = "plain" THEN Planned(Completed, [planned |-> TRUE], sys)
    ELSE Planned(Uncompleted, [planned |-> TRUE], sys)

\* EncryptApfsVolume::plan.  planned_create_apfs_volume: the state of the
\* CreateApfsVolume planned before; security_runs, diskutil_runs: `security
\* find-generic-password` and `diskutil apfs list` could be run.
EncryptApfsVolumePlan(sys, planned_create_apfs_volume, security_runs, diskutil_runs) ==
    IF ~security_runs THEN PlanError("Command", sys)
    ELSE IF sys.password /\ planned_create_apfs_volume = Completed
         THEN Planned(Completed, [planned |-> TRUE], sys)
    ELSE IF sys.password THEN PlanError("ExistingPasswordFound", sys)
    ELSE IF planned_create_apfs_volume = Completed
         THEN PlanError("MissingPasswordForExistingVolume", sys)
    ELSE IF ~diskutil_runs THEN PlanError("Command", sys)
    ELSE IF sys.volume = "encrypted" THEN PlanError("ExistingVolumeNotEncrypted", sys)
    ELSE IF sys.volume = "plain" THEN Planned(Completed, [planned |-> TRUE], sys)
    ELSE Planned(Uncompleted, [planned |-> TRUE], sys)

PlanEncryptApfsVolume ==
    /\ pc = "new"
    /\ subject = ENC
    /\ \E planned_create_apfs_volume \in ActionState, security_runs, diskutil_runs \in BOOLEAN :
          \* CreateApfsVolume is planned Completed only for a volume that exists
          /\ planned_create_apfs_volume = Completed => system.volume /= "absent"
          /\ PlanReturns(EncryptApfsVolumePlan(system, planned_create_apfs_volume,
                                               security_runs, diskutil_runs),
                         [planned_create_apfs_volume |-> planned_create_apfs_volume,
                          security_runs |-> security_runs,
                          diskutil_runs |-> diskutil_runs])

\* A plan that mounts the volume it is to mount.
MountApfsVolumePlanMounts(sys) ==
    Planned(PlannedState, [planned |-> TRUE], [sys EXCEPT !.mount_point = TRUE])

\* MountApfsVolume::plan.
MountApfsVolumePlan(sys) == Planned(PlannedState, [planned |-> TRUE], sys)

PlanMountApfsVolume ==
    /\ pc = "new"
    /\ subject = MNT
    /\ PlanReturns(MountApfsVolumePlan(system), [given |-> TRUE])

UrlSchemes == {"https", "http", "file", "ftp", "path"}
ProxySchemes == {"none", "https", "http", "socks5", "ftp"}

\* A plan that looks at no scheme of the package URL.
FetchAndUnpackNixPlanAnyScheme(sys, url, proxy, ssl_cert_file) ==
    IF proxy \notin {"none", "https", "http", "socks5"}
    THEN PlanError("UnknownProxyScheme", sys)
    ELSE IF ssl_cert_file /\ ~sys.ssl_cert_parses THEN PlanError("Certificate", sys)
    ELSE Planned(PlannedState,
                 [url_or_path |-> url, proxy |-> proxy, ssl_cert_file |-> ssl_cert_file],
                 sys)

\* FetchAndUnpackNix::plan.  url: the scheme of url_or_path ("path" when it
\* is a path); proxy: the scheme of the proxy ("none" without one);
\* ssl_cert_file: whether one is given.
FetchAndUnpackNixPlan(sys, url, proxy, ssl_cert_file) ==
    IF url \notin {"https", "http", "file", "path"}
    THEN PlanError("UnknownUrlScheme", sys)
    ELSE IF proxy \notin {"none", "https", "http", "socks5"}
         THEN PlanError("UnknownProxyScheme", sys)
    ELSE IF ssl_cert_file /\ ~sys.ssl_cert_parses THEN PlanError("Certificate", sys)
    ELSE Planned(PlannedState,
                 [url_or_path |-> url, proxy |-> proxy, ssl_cert_file |-> ssl_cert_file],
                 sys)

PlanFetchAndUnpackNix ==
    /\ pc = "new"
    /\ subject = FETCH
    /\ \E url \in UrlSchemes, proxy \in ProxySchemes, ssl_cert_file \in BOOLEAN :
          PlanReturns(FetchAndUnpackNixPlan(system, url, proxy, ssl_cert_file),
                      [url |-> url, proxy |-> proxy, ssl_cert_file |-> ssl_cert_file])

\* MoveUnpackedNix::plan.
MoveUnpackedNixPlan(sys) == Planned(PlannedState, [planned |-> TRUE], sys)

PlanMoveUnpackedNix ==
    /\ pc = "new"
    /\ subject = MOVE
    /\ PlanReturns(MoveUnpackedNixPlan(system), [given |-> TRUE])

\* ------------------------------------------------------- calls on a child
\* What try_execute / try_revert on a child in state s can do: skip the body,
\* or run it to one of its outcomes.
Skips(op, s) == IF op = "try_execute" THEN TryExecuteSkips(s) ELSE TryRevertSkips(s)
StateAfter(op, s, out) ==
    IF op = "try_execute" THEN StateAfterExecute(s, out) ELSE StateAfterRevert(s, out)
ChildRuns(op, s) ==
    IF Skips(op, s) THEN {[out |-> "skip", state |-> s]}
    ELSE {[out |-> o, state |-> StateAfter(op, s, o)] : o \in Outcomes}

\* --------------------------------------------------- returning to the driver
\* The body returns r to StatefulAction::try_execute / try_revert, which moves
\* the composite's state only on success.
Return(op, r) ==
    /\ pc' = "idle"
    /\ result' = CallResult(op, TRUE, r)
    /\ state' = IF op = "execute"
                 THEN StateAfterExecute(state, IF r.ok THEN "ok" ELSE "err")
                 ELSE StateAfterRevert(state, IF r.ok THEN "ok" ELSE "err")

\* A child awaited in line panicked: the panic unwinds through the body and
\* through try_execute / try_revert.
Unwind(op) ==
    /\ pc' = "unwound"
    /\ result' = Panicked(op)
    /\ state' = state

\* Dropping the JoinSet aborts every task that has not finished.
DropJoinSet(js) ==
    [i \in DOMAIN js |->
        IF js[i].st = "pending" THEN [js[i] EXCEPT !.st = "aborted"] ELSE js[i]]

\* A join that puts the clone in the slot after the one it was planned at.
StoreJoinedInNextSlot(files, i, clone) ==
    [files EXCEPT ![(i % Len(files)) + 1] = clone]
\* Ok(Ok((idx, clone))) => self.create_or_insert_into_files[idx] = clone.
StoreJoined(files, i, clone) == [files EXCEPT ![i] = clone]

\* JoinSet::spawn for every file child: each task owns a clone of the child.
SpawnAll(files) ==
    [i \in DOMAIN files |-> [st |-> "pending", out |-> "none", clone |-> files[i]]]

\* ------------------------------------------------------------- the driver
\* StatefulAction::try_execute on the composite.
TryExecute ==
    /\ pc = "idle"
    /\ subject \in Driven
    /\ calls < CallsAllowed(subject, origin)
    /\ calls' = calls + 1
    /\ prev' = Summary(result, log)
    /\ log' = << >>
    /\ errors' = << >>
    /\ set' = << >>
    /\ done' = << >>
    /\ IF TryExecuteSkips(state)
       THEN /\ pc' = "idle"
            /\ idx' = 0
            /\ result' = CallResult("execute", FALSE, ResultOk)
            /\ before' = before
       ELSE /\ pc' = CASE subject = CSP -> "execute_directories"
                       [] subject = PNC -> "pnc_execute"
                       [] OTHER -> "execute"
            /\ idx' = 1
            /\ result' = NoResult
            /\ before' = system
    /\ UNCHANGED <<system, args, this, receipt, subject, origin, state,
                   create_directories, create_or_insert_into_files,
                   place_nix_configuration>>

\* StatefulAction::try_revert on the composite.  ConfigureShellProfile::revert
\* starts by spawning one task per file child; PlaceNixConfiguration::revert
\* starts with its first child.
TryRevert ==
    /\ pc = "idle"
    /\ subject \in Driven
    /\ calls < CallsAllowed(subject, origin)
    /\ calls' = calls + 1
    /\ prev' = Summary(result, log)
    /\ log' = << >>
    /\ errors' = << >>
    /\ done' = << >>
    /\ IF TryRevertSkips(state)
       THEN /\ pc' = "idle"
            /\ idx' = 0
            /\ set' = << >>
            /\ result' = CallResult("revert", FALSE, ResultOk)
       ELSE /\ pc' = CASE subject = CSP -> "revert_join"
                       [] subject = PNC -> "pnc_revert"
                       [] OTHER -> "revert"
            /\ idx' = 1
            /\ set' = IF subject = CSP THEN SpawnAll(create_or_insert_into_files)
                      ELSE << >>
            /\ result' = NoResult
    /\ UNCHANGED <<system, args, this, before, receipt, subject, origin, state, create_directories,
                   create_or_insert_into_files, place_nix_configuration>>

\* ------------------------------------------ ConfigureShellProfile::execute
\* for create_directory in &mut self.create_directories {
\*     create_directory.try_execute().await?; }
ExecuteCreateDirectory ==
    /\ pc = "execute_directories"
    /\ idx <= Len(create_directories)
    /\ \E r \in ChildRuns("try_execute", create_directories[idx]) :
          /\ log' = Append(log, LogEntry("try_execute", "dir", idx, r.out))
          /\ create_directories' = [create_directories EXCEPT ![idx] = r.state]
          /\ CASE r.out \in {"skip", "ok"} ->
                    /\ idx' = idx + 1
                    /\ UNCHANGED <<pc, result, state>>
               [] r.out = "err" ->
                    /\ Return("execute", ResultErr(ChildError("dir", idx)))
                    /\ UNCHANGED idx
               [] r.out = "panic" ->
                    /\ Unwind("execute")
                    /\ UNCHANGED idx
    /\ UNCHANGED <<system, args, this, before, receipt, subject, origin, create_or_insert_into_files,
                   place_nix_configuration, set, done, errors, prev, calls>>

\* The spawn loop: one task per file child, each on a clone of the child.
ExecuteSpawn ==
    /\ pc = "execute_directories"
    /\ idx > Len(create_directories)
    /\ set' = SpawnAll(create_or_insert_into_files)
    /\ pc' = "execute_join"
    /\ UNCHANGED <<system, args, this, before, receipt, subject, origin, state, create_directories,
                   create_or_insert_into_files, place_nix_configuration, done,
                   errors, idx, result, log, prev, calls>>

\* A spawned task runs try_execute / try_revert on its clone and finishes.
TaskRuns(op, i) ==
    /\ set[i].st = "pending"
    /\ \E r \in ChildRuns(op, set[i].clone) :
          /\ set' = [set EXCEPT ![i] = [st |-> "finished",
                        out |-> IF r.out = "skip" THEN "ok" ELSE r.out,
                        clone |-> r.state]]
          /\ log' = Append(log, LogEntry(op, "file", i, r.out))
    /\ done' = Append(done, i)
    /\ UNCHANGED <<system, args, this, before, receipt, subject, origin, pc, state, create_directories,
                   create_or_insert_into_files, place_nix_configuration,
                   errors, idx, result, prev, calls>>

TaskExecute ==
    /\ pc = "execute_join"
    /\ \E i \in DOMAIN set : TaskRuns("try_execute", i)

\* The error a finished task hands to join_next for Ok(Err(e)): execute maps
\* the child's error through Self::error inside the task, revert does not.
ExecuteTaskError(i) == ActionErrorOf(CSP, ChildError("file", i))
RevertTaskError(i) == ChildError("file", i)

\* while let Some(result) = set.join_next().await { match result { .. } }
\* for the task at the head of the completion order.
ExecuteJoinNext ==
    /\ pc = "execute_join"
    /\ done /= << >>
    /\ LET i == Head(done)
           joined == [set EXCEPT ![i].st = "joined"]
       IN  /\ done' = Tail(done)
           /\ CASE set[i].out = "ok" ->
                     /\ create_or_insert_into_files' =
                            StoreJoined(create_or_insert_into_files, i, set[i].clone)
                     /\ set' = joined
                     /\ UNCHANGED <<errors, pc, result, state>>
                [] set[i].out = "err" ->
                     /\ errors' = Append(errors, ExecuteTaskError(i))
                     /\ set' = joined
                     /\ UNCHANGED <<create_or_insert_into_files, pc, result, state>>
                [] set[i].out = "panic" ->
                     /\ Return("execute", ResultErr(JoinErrorOf(CSP, i)))
                     /\ set' = DropJoinSet(joined)
                     /\ UNCHANGED <<create_or_insert_into_files, errors>>
    /\ UNCHANGED <<system, args, this, before, receipt, subject, origin, create_directories, place_nix_configuration,
                   idx, log, prev, calls>>

\* An execute that forgets to look at the collected errors.
ConfigureShellProfileExecuteResultIgnoresErrors(errs) == ResultOk

\* if !errors.is_empty() { one: Err(Self::error(e)); more: MultipleChildren }
ConfigureShellProfileExecuteResult(errs) ==
    IF errs = << >> THEN ResultOk
    ELSE IF Len(errs) = 1 THEN ResultErr(ActionErrorOf(CSP, errs[1]))
    ELSE ResultErr(MultipleChildren(CSP, errs))

\* join_next gave None: every task has been joined.
AllJoined == \A i \in DOMAIN set : set[i].st = "joined"

ExecuteFinish ==
    /\ pc = "execute_join"
    /\ AllJoined
    /\ Return("execute", ConfigureShellProfileExecuteResult(errors))
    /\ UNCHANGED <<system, args, this, before, receipt, subject, origin, create_directories,
                   create_or_insert_into_files, place_nix_configuration, set,
                   done, errors, idx, log, prev, calls>>

\* ------------------------------------------- ConfigureShellProfile::revert
TaskRevert ==
    /\ pc = "revert_join"
    /\ \E i \in DOMAIN set : TaskRuns("try_revert", i)

RevertJoinNext ==
    /\ pc = "revert_join"
    /\ done /= << >>
    /\ LET i == Head(done)
           joined == [set EXCEPT ![i].st = "joined"]
       IN  /\ done' = Tail(done)
           /\ CASE set[i].out = "ok" ->
                     /\ create_or_insert_into_files' =
                            StoreJoined(create_or_insert_into_files, i, set[i].clone)
                     /\ set' = joined
                     /\ UNCHANGED <<errors, pc, result, state>>
                [] set[i].out = "err" ->
                     /\ errors' = Append(errors, RevertTaskError(i))
                     /\ set' = joined
                     /\ UNCHANGED <<create_or_insert_into_files, pc, result, state>>
                [] set[i].out = "panic" ->
                     /\ Return("revert", ResultErr(JoinErrorOf(CSP, i)))
                     /\ set' = DropJoinSet(joined)
                     /\ UNCHANGED <<create_or_insert_into_files, errors>>
    /\ UNCHANGED <<system, args, this, before, receipt, subject, origin, create_directories, place_nix_configuration,
                   idx, log, prev, calls>>

\* join_next gave None: the body goes on to the directories.
RevertJoined ==
    /\ pc = "revert_join"
    /\ AllJoined
    /\ pc' = "revert_directories"
    /\ idx' = 1
    /\ UNCHANGED <<system, args, this, before, receipt, subject, origin, state, create_directories,
                   create_or_insert_into_files, place_nix_configuration, set,
                   done, errors, result, log, prev, calls>>

\* for create_directory in self.create_directories.iter_mut(): the directory
\* the k-th iteration reverts, of n.
RevertDirectoryAt(k, n) == k

\* if let Err(err) = create_directory.try_revert().await { errors.push(err); }
RevertCreateDirectory ==
    /\ pc = "revert_directories"
    /\ idx <= Len(create_directories)
    /\ LET d == RevertDirectoryAt(idx, Len(create_directories))
       IN  \E r \in ChildRuns("try_revert", create_directories[d]) :
              /\ log' = Append(log, LogEntry("try_revert", "dir", d, r.out))
              /\ create_directories' = [create_directories EXCEPT ![d] = r.state]
              /\ CASE r.out \in {"skip", "ok"} ->
                        /\ idx' = idx + 1
                        /\ UNCHANGED <<errors, pc, result, state>>
                   [] r.out = "err" ->
                        /\ idx' = idx + 1
                        /\ errors' = Append(errors, ChildError("dir", d))
                        /\ UNCHANGED <<pc, result, state>>
                   [] r.out = "panic" ->
                        /\ Unwind("revert")
                        /\ UNCHANGED <<idx, errors>>
    /\ UNCHANGED <<system, args, this, before, receipt, subject, origin, create_or_insert_into_files,
                   place_nix_configuration, set, done, prev, calls>>

\* errors empty: Ok; one: that error; more: MultipleChildren.
ConfigureShellProfileRevertResult(errs) ==
    IF errs = << >> THEN ResultOk
    ELSE IF Len(errs) = 1 THEN ResultErr(errs[1])
    ELSE ResultErr(MultipleChildren(CSP, errs))

RevertFinish ==
    /\ pc = "revert_directories"
    /\ idx > Len(create_directories)
    /\ Return("revert", ConfigureShellProfileRevertResult(errors))
    /\ UNCHANGED <<system, args, this, before, receipt, subject, origin, create_directories,
                   create_or_insert_into_files, place_nix_configuration, set,
                   done, errors, idx, log, prev, calls>>

\* ------------------------------------------------- PlaceNixConfiguration
\* The children in the order execute awaits them, and in the order revert does.
PlaceNixConfigurationExecuteOrder ==
    <<"create_directory", "create_or_merge_nix_config">>
\* A revert that walks the children in execute order.
PlaceNixConfigurationRevertOrderForward ==
    <<"create_directory", "create_or_merge_nix_config">>
PlaceNixConfigurationRevertOrder ==
    <<"create_or_merge_nix_config", "create_directory">>

\* self.<child>.try_execute().await.map_err(Self::error)?;
PlaceNixConfigurationExecuteChild ==
    /\ pc = "pnc_execute"
    /\ idx <= Len(PlaceNixConfigurationExecuteOrder)
    /\ LET c == PlaceNixConfigurationExecuteOrder[idx]
       IN  \E r \in ChildRuns("try_execute", place_nix_configuration[c]) :
              /\ log' = Append(log, LogEntry("try_execute", c, 0, r.out))
              /\ place_nix_configuration' =
                     [place_nix_configuration EXCEPT ![c] = r.state]
              /\ CASE r.out \in {"skip", "ok"} ->
                        /\ idx' = idx + 1
                        /\ UNCHANGED <<pc, result, state>>
                   [] r.out = "err" ->
                        /\ Return("execute",
                                  ResultErr(ActionErrorOf(PNC, ChildError(c, 0))))
                        /\ UNCHANGED idx
                   [] r.out = "panic" ->
                        /\ Unwind("execute")
                        /\ UNCHANGED idx
    /\ UNCHANGED <<system, args, this, before, receipt, subject, origin, create_directories,
                   create_or_insert_into_files, set, done, errors, prev, calls>>

PlaceNixConfigurationExecuteFinish ==
    /\ pc = "pnc_execute"
    /\ idx > Len(PlaceNixConfigurationExecuteOrder)
    /\ Return("execute", ResultOk)
    /\ UNCHANGED <<system, args, this, before, receipt, subject, origin, create_directories,
                   create_or_insert_into_files, place_nix_configuration, set,
                   done, errors, idx, log, prev, calls>>

\* if let Err(err) = self.<child>.try_revert().await { errors.push(err); }
PlaceNixConfigurationRevertChild ==
    /\ pc = "pnc_revert"
    /\ idx <= Len(PlaceNixConfigurationRevertOrder)
    /\ LET c == PlaceNixConfigurationRevertOrder[idx]
       IN  \E r \in ChildRuns("try_revert", place_nix_configuration[c]) :
              /\ log' = Append(log, LogEntry("try_revert", c, 0, r.out))
              /\ place_nix_configuration' =
                     [place_nix_configuration EXCEPT ![c] = r.state]
              /\ CASE r.out \in {"skip", "ok"} ->
                        /\ idx' = idx + 1
                        /\ UNCHANGED <<errors, pc, result, state>>
                   [] r.out = "err" ->
                        /\ idx' = idx + 1
                        /\ errors' = Append(errors, ChildError(c, 0))
                        /\ UNCHANGED <<pc, result, state>>
                   [] r.out = "panic" ->
                        /\ Unwind("revert")
                        /\ UNCHANGED <<idx, errors>>
    /\ UNCHANGED <<system, args, this, before, receipt, subject, origin, create_directories,
                   create_or_insert_into_files, set, done, prev, calls>>

PlaceNixConfigurationRevertResult(errs) ==
    IF errs = << >> THEN ResultOk
    ELSE IF Len(errs) = 1 THEN ResultErr(errs[1])
    ELSE ResultErr(MultipleChildren(PNC, errs))

PlaceNixConfigurationRevertFinish ==
    /\ pc = "pnc_revert"
    /\ idx > Len(PlaceNixConfigurationRevertOrder)
    /\ Return("revert", PlaceNixConfigurationRevertResult(errors))
    /\ UNCHANGED <<system, args, this, before, receipt, subject, origin, create_directories,
                   create_or_insert_into_files, place_nix_configuration, set,
                   done, errors, idx, log, prev, calls>>

\* ------------------------------------------------ bodies of the leaf actions
\* A leaf action's execute or revert is a fixed list of steps: commands it
\* runs and file operations it makes.  A step is attempted or passed over
\* according to the action's fields, the system and what earlier steps
\* found; an attempted step succeeds and has its effect on the system, or it
\* fails.  st holds the system (sys), the answers of the queries made so far
\* (q), the attempted steps (log), the failures (errs) and whether the body
\* has returned early (stopped).
NoQueries ==
    [socket_is_active |-> FALSE, socket_is_enabled |-> FALSE,
     service_is_active |-> FALSE, service_is_enabled |-> FALSE,
     src_data |-> "absent", is_disabled |-> FALSE, needs_bootout |-> FALSE,
     currently_unmounted |-> FALSE, dest_store_exists |-> FALSE]
StartOf(sys) ==
    [sys |-> sys, q |-> NoQueries, log |-> << >>, errs |-> << >>, stopped |-> FALSE]

\* is_enabled: `systemctl is-enabled` prints "enabled" for a wanted unit and
\* "linked" for one whose unit file is a symlink in /etc/systemd/system.
IsEnabled(unit) == unit.wanted \/ unit.dest \in {"link_src", "link_other"}
\* is_active.
IsActive(unit) == unit.active
\* `systemctl disable [--now]`: the unit is wanted no more and the link to a
\* unit file outside the unit path is removed, wherever the link points (it
\* is what is-enabled reports as "linked"); --now stops it too.
Disable(unit, now) ==
    [unit EXCEPT !.wanted = FALSE,
                 !.dest = IF @ \in {"link_src", "link_other"} THEN "absent" ELSE @,
                 !.active = IF now THEN FALSE ELSE @]
\* `systemctl stop`.
Stop(unit) == [unit EXCEPT !.active = FALSE]
\* An enable that starts the unit whether or not --now is given.
EnableAndStart(unit, now) ==
    [unit EXCEPT !.wanted = TRUE, !.dest = "link_src", !.active = TRUE]
\* `systemctl enable [--now] <path of the unit under /nix>`.
Enable(unit, now) ==
    [unit EXCEPT !.wanted = TRUE, !.dest = "link_src",
                 !.active = IF now THEN TRUE ELSE @]

\* ConfigureInitService::execute, InitSystem::Systemd, in program order.
ConfigureInitServiceExecuteSteps ==
    <<"daemon_reload_first", "is_enabled_socket", "disable_socket",
      "is_active_socket", "stop_socket", "is_enabled_service",
      "is_active_service", "disable_service", "stop_service",
      "symlink_tmpfiles", "tmpfiles_create", "check_service", "remove_service",
      "symlink_service", "check_socket", "remove_socket", "symlink_socket",
      "daemon_reload", "enable_socket">>

\* ConfigureInitService::revert, InitSystem::Systemd, in program order.
ConfigureInitServiceRevertSteps ==
    <<"is_active_socket", "is_enabled_socket", "is_active_service",
      "is_enabled_service", "stop_socket", "disable_socket", "stop_service",
      "disable_service", "tmpfiles_remove", "remove_tmpfiles", "daemon_reload">>

\* "These have to fail fast": the four queries revert makes with `?`.
FailFastQueries ==
    {"is_active_socket", "is_enabled_socket", "is_active_service",
     "is_enabled_service"}

\* CreateNixGcService::execute, CreateNixOptimizeService::execute (which has
\* no directory to create) and the revert of both.
CreateNixGcServiceExecuteSteps ==
    <<"create_dir", "bootout", "open", "write_all", "chown", "bootstrap">>
CreateNixOptimizeServiceExecuteSteps ==
    <<"bootout", "open", "write_all", "chown", "bootstrap">>
CreateNixGcServiceRevertSteps == <<"remove_file">>
CreateNixOptimizeServiceRevertSteps == <<"remove_file">>

\* ConfigureInitService::execute and revert, InitSystem::Launchd.
ConfigureInitServiceLaunchdExecuteSteps ==
    <<"open_src", "read_src", "create_src", "write_src", "copy", "load",
      "service_is_disabled", "enable_service", "bootstrap_daemon">>
ConfigureInitServiceLaunchdRevertSteps ==
    <<"print_service", "kill_service", "bootout_daemon", "remove_dest">>

\* A revert of MoveUnpackedNix that looks for what execute moved.
MoveUnpackedNixRevertStepsUndo == <<"glob", "read_dir">>

\* FetchAndUnpackNix: "scheme" is the match on the scheme of the URL.
FetchAndUnpackNixExecuteSteps ==
    <<"scheme", "proxy_all", "parse_ssl_cert", "client_build", "request_build",
      "request_execute", "response_bytes", "read_file", "unpack",
      "chown_nix_store">>
FetchAndUnpackNixRevertSteps == << >>

\* MoveUnpackedNix: "one_nix_path" is the test found_nix_paths.len() != 1,
\* "dest_store_exists" the test dest_store.exists(); the steps up to the loop
\* over the entries of the unpacked store.
MoveUnpackedNixExecuteSteps ==
    <<"glob", "one_nix_path", "read_dir", "dest_store_exists",
      "create_dest_store", "group", "chown_dest_store">>
\* A pass of the loop that takes the entry away before it looks for an
\* entry of its name in /nix/store.
MoveUnpackedNixEntryStepsRenameFirst ==
    <<"next_entry", "rename_entry", "remove_entry", "set_permissions",
      "symlink_entry">>
\* One pass of the loop, for the entry the listing gives next.
MoveUnpackedNixEntrySteps ==
    <<"next_entry", "remove_entry", "rename_entry", "set_permissions",
      "symlink_entry">>
\* entry_dest.exists(), which follows a symlink.
EntryDestExists(entry) == entry.dest \in {"other", "package"}
MoveUnpackedNixRevertSteps == << >>

\* revert_description: "Deliberately empty -- this is a noop".
FetchAndUnpackNixRevertDescription == << >>
MoveUnpackedNixRevertDescription == << >>

\* MountApfsVolume::execute and MountApfsVolume::revert have the same body.
MountApfsVolumeExecuteSteps == <<"diskutil_info", "parse_info", "diskutil_mount">>
MountApfsVolumeRevertSteps == <<"diskutil_info", "parse_info", "diskutil_mount">>

\* An execute that encrypts the volume before it stores the password.
EncryptApfsVolumeExecuteStepsEncryptFirst ==
    <<"mount_volume", "volume_info", "parse_volume_info", "encrypt_volume",
      "add_generic_password", "terminal", "prompt_password",
      "set_partition_list">>

\* EncryptApfsVolume::execute and revert.
EncryptApfsVolumeExecuteSteps ==
    <<"mount_volume", "volume_info", "parse_volume_info",
      "add_generic_password", "terminal", "prompt_password",
      "set_partition_list", "encrypt_volume">>
EncryptApfsVolumeRevertSteps ==
    <<"volume_info", "parse_volume_info", "delete_generic_password">>

\* The steps that are tests of what the body holds: they run no command and
\* fail only as StepCannotSucceed says.
Tests == {"scheme", "one_nix_path", "dest_store_exists"}

WebSchemes == {"https", "http"}

\* The conditions under which the body makes a step.
StepAttempted(op, step, st, fields) ==
    CASE step = "daemon_reload_first" -> fields.start_daemon
      [] step = "daemon_reload" -> op = "revert" \/ fields.start_daemon
      [] step = "disable_socket" -> st.q.socket_is_enabled
      [] step = "stop_socket" -> st.q.socket_is_active
      [] step = "disable_service" -> st.q.service_is_enabled
      [] step = "stop_service" ->
             st.q.service_is_active /\ (op = "execute" => ~st.q.service_is_enabled)
      [] step = "symlink_tmpfiles" -> ~st.sys.tmpfiles
      [] step = "remove_service" -> st.sys.service.dest /= "absent"
      [] step = "remove_socket" -> st.sys.socket.dest /= "absent"
      [] step = "create_dir" -> ~st.sys.root
      [] step = "bootout" -> fields.needs_bootout
      [] step = "enable_service" -> st.q.is_disabled
      [] step = "bootstrap_daemon" -> fields.start_daemon
      [] step \in {"kill_service", "bootout_daemon"} -> st.q.needs_bootout
      [] step = "proxy_all" ->
             fields.url_or_path \in WebSchemes /\ fields.proxy /= "none"
      [] step = "parse_ssl_cert" ->
             fields.url_or_path \in WebSchemes /\ fields.ssl_cert_file
      [] step \in {"client_build", "request_build", "request_execute",
                   "response_bytes"} -> fields.url_or_path \in WebSchemes
      [] step = "read_file" -> fields.url_or_path \in {"file", "path"}
      [] step \in {"create_dest_store", "group", "chown_dest_store"} ->
             ~st.q.dest_store_exists
      [] step = "remove_entry" -> EntryDestExists(st.sys.entries[fields.entry])
      [] step = "diskutil_mount" -> ~st.q.currently_unmounted
      [] OTHER -> TRUE

\* A step the system makes fail: the unit check finds a foreign file, symlink
\* finds its destination taken, remove_file finds no file, open finds no
\* directory, launchctl is asked to unload a service that is not loaded or to
\* load one that is.
StepCannotSucceed(step, sys, fields) ==
    CASE step = "check_service" -> CheckIfSystemdUnitExists(sys.service) /= "ok"
      [] step = "check_socket" -> CheckIfSystemdUnitExists(sys.socket) /= "ok"
      [] step = "symlink_service" -> sys.service.dest /= "absent"
      [] step = "symlink_socket" -> sys.socket.dest /= "absent"
      [] step = "remove_tmpfiles" -> ~sys.tmpfiles
      [] step = "open" -> ~sys.root
      [] step = "bootout" -> ~sys.loaded
      [] step = "bootstrap" -> sys.loaded
      [] step = "remove_file" -> sys.plist = "absent"
      [] step = "open_src" -> sys.src = "absent"
      [] step = "bootout_daemon" -> ~sys.loaded
      [] step = "remove_dest" -> sys.dest = "absent"
      [] step = "scheme" -> fields.url_or_path \notin {"https", "http", "file", "path"}
      [] step = "parse_ssl_cert" -> ~sys.ssl_cert_parses
      [] step = "one_nix_path" -> ~sys.unpacked
      [] step = "rename_entry" ->
             \/ sys.entries[fields.entry].dest \in {"other", "package"}
             \/ /\ sys.entries[fields.entry].dest = "link"
                /\ sys.entries[fields.entry].src = "dir"
      [] step = "symlink_entry" -> sys.entries[fields.entry].src /= "absent"
      [] step = "diskutil_info" -> ~sys.exists
      [] step \in {"mount_volume", "volume_info"} -> sys.volume = "absent"
      [] step = "add_generic_password" -> sys.password
      [] step = "delete_generic_password" -> ~sys.password
      [] step = "encrypt_volume" -> sys.volume /= "plain"
      [] OTHER -> FALSE

\* The ActionErrorKind of a failed step.
StepErrorKind(step, sys) ==
    CASE step = "check_service" /\ CheckIfSystemdUnitExists(sys.service) /= "ok" ->
             CheckIfSystemdUnitExists(sys.service)
      [] step = "check_socket" /\ CheckIfSystemdUnitExists(sys.socket) /= "ok" ->
             CheckIfSystemdUnitExists(sys.socket)
      [] step \in {"check_service", "check_socket"} -> "ReadSymlink"
      [] step \in {"symlink_tmpfiles", "symlink_service", "symlink_socket"} -> "Symlink"
      [] step \in {"remove_service", "remove_socket", "remove_tmpfiles", "remove_file"} -> "Remove"
      [] step \in {"remove_dest"} -> "Remove"
      [] step = "scheme" -> "UnknownUrlScheme"
      [] step = "one_nix_path" -> "MalformedBinaryTarball"
      [] step = "parse_ssl_cert" -> "Certificate"
      [] step \in {"proxy_all", "client_build", "request_build",
                   "request_execute", "response_bytes"} -> "Reqwest"
      [] step \in {"read_src", "read_file"} -> "Read"
      [] step \in {"read_dir", "next_entry"} -> "ReadDir"
      [] step = "unpack" -> "Unarchive"
      [] step = "glob" -> "Glob"
      [] step = "group" -> "NoGroup"
      [] step = "remove_entry" -> "Remove"
      [] step = "rename_entry" -> "Rename"
      [] step = "set_permissions" -> "SetPermissions"
      [] step = "symlink_entry" -> "Symlink"
      [] step \in {"parse_info", "parse_volume_info"} -> "Plist"
      [] step = "terminal" -> "CouldNotGetTerminal"
      [] step = "prompt_password" -> "TerminalPasswordPrompt"
      [] step = "create_src" -> "Truncate"
      [] step = "write_src" -> "Write"
      [] step = "copy" -> "Copy"
      [] step \in {"create_dir", "create_dest_store"} -> "CreateDirectory"
      [] step \in {"open", "open_src"} -> "Open"
      [] step = "write_all" -> "Write"
      [] step \in {"chown", "chown_dest_store", "chown_nix_store"} -> "Chown"
      [] OTHER -> "Command"

\* OpenOptions create(true).write(true).read(true): a missing file is created
\* empty, an existing one is opened as it is, and write_all puts the
\* generated bytes at its start: whatever an older and longer content had
\* beyond them stays.
OpenCreate(file) == IF file = "absent" THEN "empty" ELSE file
WriteAll(file) ==
    IF file \in {"empty", "expected"} THEN "expected" ELSE "garbage"

\* str::replace of /var/log/nix-daemon.log by the log file under the home
\* directory.
ReplaceLogPath(data) == IF data = "original" THEN "rewritten" ELSE data

\* What a step that succeeds does.
StepEffect(op, step, st, fields) ==
    CASE step = "is_active_socket" ->
             [st EXCEPT !.q.socket_is_active = IsActive(st.sys.socket)]
      [] step = "is_enabled_socket" ->
             [st EXCEPT !.q.socket_is_enabled = IsEnabled(st.sys.socket)]
      [] step = "is_active_service" ->
             [st EXCEPT !.q.service_is_active = IsActive(st.sys.service)]
      [] step = "is_enabled_service" ->
             [st EXCEPT !.q.service_is_enabled = IsEnabled(st.sys.service)]
      [] step = "disable_socket" ->
             [st EXCEPT !.sys.socket = Disable(@, FALSE)]
      [] step = "stop_socket" -> [st EXCEPT !.sys.socket = Stop(@)]
      [] step = "disable_service" ->
             [st EXCEPT !.sys.service =
                            Disable(@, op = "execute" /\ st.q.service_is_active)]
      [] step = "stop_service" -> [st EXCEPT !.sys.service = Stop(@)]
      [] step = "symlink_tmpfiles" -> [st EXCEPT !.sys.tmpfiles = TRUE]
      [] step = "remove_tmpfiles" -> [st EXCEPT !.sys.tmpfiles = FALSE]
      [] step = "remove_service" -> [st EXCEPT !.sys.service.dest = "absent"]
      [] step = "symlink_service" -> [st EXCEPT !.sys.service.dest = "link_src"]
      [] step = "remove_socket" -> [st EXCEPT !.sys.socket.dest = "absent"]
      [] step = "symlink_socket" -> [st EXCEPT !.sys.socket.dest = "link_src"]
      [] step = "enable_socket" ->
             [st EXCEPT !.sys.socket =
                            Enable(@, fields.start_daemon \/ st.q.socket_is_active)]
      [] step = "create_dir" -> [st EXCEPT !.sys.root = TRUE]
      [] step = "bootout" -> [st EXCEPT !.sys.loaded = FALSE]
      [] step = "open" -> [st EXCEPT !.sys.plist = OpenCreate(@)]
      [] step = "write_all" -> [st EXCEPT !.sys.plist = WriteAll(@)]
      [] step = "bootstrap" -> [st EXCEPT !.sys.loaded = TRUE]
      [] step = "remove_file" -> [st EXCEPT !.sys.plist = "absent"]
      [] step = "read_src" -> [st EXCEPT !.q.src_data = st.sys.src]
      [] step = "create_src" -> [st EXCEPT !.sys.src = "empty"]
      [] step = "write_src" ->
             [st EXCEPT !.sys.src = ReplaceLogPath(st.q.src_data)]
      [] step = "copy" -> [st EXCEPT !.sys.dest = st.sys.src]
      [] step = "load" -> [st EXCEPT !.sys.loaded = TRUE, !.sys.disabled = FALSE]
      [] step = "service_is_disabled" ->
             [st EXCEPT !.q.is_disabled = st.sys.disabled]
      [] step = "enable_service" -> [st EXCEPT !.sys.disabled = FALSE]
      [] step = "bootstrap_daemon" -> [st EXCEPT !.sys.loaded = TRUE]
      [] step = "print_service" -> [st EXCEPT !.q.needs_bootout = st.sys.loaded]
      [] step = "bootout_daemon" -> [st EXCEPT !.sys.loaded = FALSE]
      [] step = "remove_dest" -> [st EXCEPT !.sys.dest = "absent"]
      [] step = "unpack" -> [st EXCEPT !.sys.unpacked = TRUE]
      [] step = "dest_store_exists" ->
             [st EXCEPT !.q.dest_store_exists = st.sys.dest_store]
      [] step = "create_dest_store" -> [st EXCEPT !.sys.dest_store = TRUE]
      [] step = "remove_entry" ->
             [st EXCEPT !.sys.entries[fields.entry].dest = "absent"]
      [] step = "rename_entry" ->
             [st EXCEPT !.sys.entries[fields.entry] =
                            [src |-> "absent",
                             dest |-> IF @.src = "dir" THEN "package" ELSE "link"]]
      [] step = "symlink_entry" ->
             [st EXCEPT !.sys.entries[fields.entry].src = "link"]
      [] step = "parse_info" ->
             [st EXCEPT !.q.currently_unmounted = ~st.sys.mount_point]
      [] step = "diskutil_mount" -> [st EXCEPT !.sys.mount_point = TRUE]
      [] step = "add_generic_password" ->
             [st EXCEPT !.sys.password = TRUE, !.sys.item = "generated"]
      [] step = "delete_generic_password" ->
             [st EXCEPT !.sys.password = FALSE, !.sys.item = "none"]
      [] step = "encrypt_volume" ->
             [st EXCEPT !.sys.volume = "encrypted", !.sys.passphrase = "generated"]
      [] OTHER -> st

\* A revert whose every failure ends the body at once.
FailFastAlways(op, step) == TRUE

\* Whether a failure of the step ends the body at once (`?`) or is pushed to
\* `errors` for the body to go on.
FailFast(op, step) ==
    \/ op = "execute"
    \/ step \in FailFastQueries
    \/ step \notin {"stop_socket", "disable_socket", "stop_service",
                     "disable_service", "tmpfiles_remove", "remove_tmpfiles",
                     "daemon_reload"}

\* The ActionErrorKind of the k-th step's failure.
KindError(kind, k) == [tag |-> "none", kind |-> kind, id |-> k, inner |-> << >>]

\* The body from its k-th step on, with the steps in `fails` failing.
RECURSIVE RunSteps(_, _, _, _, _, _)
RunSteps(op, steps, k, st, fields, fails) ==
    IF k > Len(steps) \/ st.stopped THEN st
    ELSE IF ~StepAttempted(op, steps[k], st, fields)
         THEN RunSteps(op, steps, k + 1, st, fields, fails)
    ELSE IF steps[k] \in fails \/ StepCannotSucceed(steps[k], st.sys, fields)
         THEN RunSteps(op, steps, k + 1,
                  [st EXCEPT !.log = Append(@, LogEntry(op, steps[k], k, "err")),
                             !.errs = Append(@, KindError(StepErrorKind(steps[k], st.sys), k)),
                             !.stopped = FailFast(op, steps[k])],
                  fields, fails)
    ELSE RunSteps(op, steps, k + 1,
             [StepEffect(op, steps[k], st, fields) EXCEPT
                  !.log = Append(@, LogEntry(op, steps[k], k, "ok"))],
             fields, fails)

\* The sets of at most n of the steps S: those that fail in one call.
RECURSIVE FailureSets(_, _)
FailureSets(S, n) ==
    IF n = 0 THEN {{}}
    ELSE FailureSets(S, n - 1) \cup {F \cup {x} : F \in FailureSets(S, n - 1), x \in S}

\* Self::error(kind) for the one failure a body returns.
SingleError(tag, e) == [tag |-> tag, kind |-> e.kind, id |-> e.id, inner |-> << >>]

\* Self::error(ActionErrorKind::Multiple(errors)).
Multiple(tag, errs) == [tag |-> tag, kind |-> "Multiple", id |-> 0, inner |-> errs]

\* errors empty: Ok; one: Self::error of it; more: Self::error(Multiple).
ConfigureInitServiceRevertResult(errs) ==
    IF errs = << >> THEN ResultOk
    ELSE IF Len(errs) = 1 THEN ResultErr(SingleError(CIS, errs[1]))
    ELSE ResultErr(Multiple(CIS, errs))

\* A body whose every failure returns at once: Ok(()) at its end, the first
\* failure otherwise.
FailFastResult(tag, errs) ==
    IF errs = << >> THEN ResultOk ELSE ResultErr(SingleError(tag, errs[1]))

\* What the body of op returns for the failures errs.
LeafResult(op, errs) ==
    IF subject = CIS /\ op = "revert" THEN ConfigureInitServiceRevertResult(errs)
    ELSE FailFastResult(subject, errs)

\* The body runs its steps, of which those of one of the sets in `failing`
\* fail, and returns to try_execute / try_revert.
LeafBody(op, steps, failing) ==
    /\ \E fails \in failing :
          \E st \in {RunSteps(op, steps, 1, StartOf(system), this, fails)} :
              /\ system' = st.sys
              /\ log' = st.log
              /\ errors' = st.errs
              /\ Return(op, LeafResult(op, st.errs))
    /\ UNCHANGED <<args, this, before, receipt, subject, origin,
                   create_directories, create_or_insert_into_files,
                   place_nix_configuration, set, done, idx, prev, calls>>

\* match init / match self.init.
ConfigureInitServiceExecuteStepsOf(init) ==
    CASE init = "Systemd" -> ConfigureInitServiceExecuteSteps
      [] init = "Launchd" -> ConfigureInitServiceLaunchdExecuteSteps
      [] OTHER -> << >>
ConfigureInitServiceRevertStepsOf(init) ==
    CASE init = "Systemd" -> ConfigureInitServiceRevertSteps
      [] init = "Launchd" -> ConfigureInitServiceLaunchdRevertSteps
      [] OTHER -> << >>
Range(steps) == {steps[k] : k \in DOMAIN steps}

\* ConfigureInitService::execute_description: the steps its explanation
\* lists, by the name of the step of execute each line describes.
ConfigureInitServiceExecuteDescription(init, start_daemon) ==
    CASE init = "Systemd" ->
             <<"tmpfiles_create", "symlink_service", "symlink_socket",
               "daemon_reload">>
                 \o (IF start_daemon THEN <<"enable_socket">> ELSE << >>)
      [] init = "Launchd" ->
             <<"copy">> \o (IF start_daemon THEN <<"load">> ELSE << >>)
      [] OTHER -> << >>

\* Every step of execute returns at its failure: one failing step at most
\* is met.
ConfigureInitServiceExecute ==
    /\ pc = "execute"
    /\ subject = CIS
    /\ LeafBody("execute", ConfigureInitServiceExecuteStepsOf(this.init),
                FailureSets(Range(ConfigureInitServiceExecuteStepsOf(this.init)), 1))

\* revert returns at the first query that fails, and otherwise goes on past
\* every failure.
ConfigureInitServiceRevert ==
    /\ pc = "revert"
    /\ subject = CIS
    /\ LeafBody("revert", ConfigureInitServiceRevertStepsOf(this.init),
                {{q} : q \in FailFastQueries} \cup
                FailureSets(Range(ConfigureInitServiceRevertStepsOf(this.init))
                                \ FailFastQueries,
                            MaxFailures))

CreateNixGcServiceExecute ==
    /\ pc = "execute"
    /\ subject = GC
    /\ LeafBody("execute", CreateNixGcServiceExecuteSteps,
                FailureSets(Range(CreateNixGcServiceExecuteSteps), 1))

CreateNixGcServiceRevert ==
    /\ pc = "revert"
    /\ subject = GC
    /\ LeafBody("revert", CreateNixGcServiceRevertSteps,
                FailureSets(Range(CreateNixGcServiceRevertSteps), 1))

CreateNixOptimizeServiceExecute ==
    /\ pc = "execute"
    /\ subject = OPT
    /\ LeafBody("execute", CreateNixOptimizeServiceExecuteSteps,
                FailureSets(Range(CreateNixOptimizeServiceExecuteSteps), 1))

CreateNixOptimizeServiceRevert ==
    /\ pc = "revert"
    /\ subject = OPT
    /\ LeafBody("revert", CreateNixOptimizeServiceRevertSteps,
                FailureSets(Range(CreateNixOptimizeServiceRevertSteps), 1))

FetchAndUnpackNixExecute ==
    /\ pc = "execute"
    /\ subject = FETCH
    /\ LeafBody("execute", FetchAndUnpackNixExecuteSteps,
                FailureSets(Range(FetchAndUnpackNixExecuteSteps) \ Tests, 1))

FetchAndUnpackNixRevert ==
    /\ pc = "revert"
    /\ subject = FETCH
    /\ LeafBody("revert", FetchAndUnpackNixRevertSteps,
                FailureSets(Range(FetchAndUnpackNixRevertSteps), 1))

\* MoveUnpackedNix::execute up to its loop: a failure returns, and otherwise
\* the loop starts with the first entry.
MoveUnpackedNixExecute ==
    /\ pc = "execute"
    /\ subject = MOVE
    /\ \E fails \in FailureSets(Range(MoveUnpackedNixExecuteSteps) \ Tests, 1) :
          \E st \in {RunSteps("execute", MoveUnpackedNixExecuteSteps, 1,
                               StartOf(system), this, fails)} :
              /\ system' = st.sys
              /\ log' = st.log
              /\ errors' = st.errs
              /\ IF st.stopped
                 THEN /\ Return("execute", LeafResult("execute", st.errs))
                      /\ idx' = idx
                 ELSE /\ pc' = "move_entries"
                      /\ idx' = 1
                      /\ UNCHANGED <<result, state>>
    /\ UNCHANGED <<args, this, before, receipt, subject, origin,
                   create_directories, create_or_insert_into_files,
                   place_nix_configuration, set, done, prev, calls>>

\* One pass of `while let Some(entry) = src_store_listing.next_entry()`: the
\* idx-th name of the unpacked store, when something is there, is removed
\* from /nix/store if it exists there, renamed into /nix/store, made
\* read-only and linked back; the first step that fails returns its error.
MoveUnpackedNixMoveEntry ==
    /\ pc = "move_entries"
    /\ subject = MOVE
    /\ idx \in DOMAIN system.entries
    /\ IF system.entries[idx].src = "absent"
       THEN /\ idx' = idx + 1
            /\ UNCHANGED <<system, log, errors, pc, result, state>>
       ELSE \E fails \in FailureSets(Range(MoveUnpackedNixEntrySteps), 1) :
               \E st \in {RunSteps("execute", MoveUnpackedNixEntrySteps, 1,
                                    [StartOf(system) EXCEPT !.log = log],
                                    [entry |-> idx], fails)} :
                   /\ system' = st.sys
                   /\ log' = st.log
                   /\ errors' = st.errs
                   /\ IF st.stopped
                      THEN /\ Return("execute", LeafResult("execute", st.errs))
                           /\ idx' = idx
                      ELSE /\ idx' = idx + 1
                           /\ UNCHANGED <<pc, result, state>>
    /\ UNCHANGED <<args, this, before, receipt, subject, origin,
                   create_directories, create_or_insert_into_files,
                   place_nix_configuration, set, done, prev, calls>>

\* The listing is at its end: next_entry gives None, or its error, and
\* execute returns.
MoveUnpackedNixExecuteFinish ==
    /\ pc = "move_entries"
    /\ subject = MOVE
    /\ idx > Len(system.entries)
    /\ \E fails \in FailureSets({"next_entry"}, 1) :
          \E st \in {RunSteps("execute", <<"next_entry">>, 1,
                               [StartOf(system) EXCEPT !.log = log],
                               [entry |-> idx], fails)} :
              /\ log' = st.log
              /\ errors' = st.errs
              /\ Return("execute", LeafResult("execute", st.errs))
    /\ UNCHANGED <<system, args, this, before, receipt, subject, origin,
                   create_directories, create_or_insert_into_files,
                   place_nix_configuration, set, done, idx, prev, calls>>

MoveUnpackedNixRevert ==
    /\ pc = "revert"
    /\ subject = MOVE
    /\ LeafBody("revert", MoveUnpackedNixRevertSteps,
                FailureSets(Range(MoveUnpackedNixRevertSteps), 1))

MountApfsVolumeExecute ==
    /\ pc = "execute"
    /\ subject = MNT
    /\ LeafBody("execute", MountApfsVolumeExecuteSteps,
                FailureSets(Range(MountApfsVolumeExecuteSteps), 1))

MountApfsVolumeRevert ==
    /\ pc = "revert"
    /\ subject = MNT
    /\ LeafBody("revert", MountApfsVolumeRevertSteps,
                FailureSets(Range(MountApfsVolumeRevertSteps), 1))

\* EncryptApfsVolume::execute, one command at a time: the idx-th step fails
\* and the body returns its error, or it succeeds and the body goes on to the
\* next step, returning Ok(()) after the last.
EncryptApfsVolumeExecuteStep ==
    /\ pc = "execute"
    /\ subject = ENC
    /\ idx \in DOMAIN EncryptApfsVolumeExecuteSteps
    /\ \E fails \in FailureSets({EncryptApfsVolumeExecuteSteps[idx]}, 1) :
          \E st \in {RunSteps("execute", <<EncryptApfsVolumeExecuteSteps[idx]>>, 1,
                               [StartOf(system) EXCEPT !.log = log], this, fails)} :
              /\ system' = st.sys
              /\ log' = st.log
              /\ errors' = st.errs
              /\ IF st.stopped \/ idx = Len(EncryptApfsVolumeExecuteSteps)
                 THEN /\ Return("execute", LeafResult("execute", st.errs))
                      /\ idx' = idx
                 ELSE /\ idx' = idx + 1
                      /\ UNCHANGED <<pc, result, state>>
    /\ UNCHANGED <<args, this, before, receipt, subject, origin,
                   create_directories, create_or_insert_into_files,
                   place_nix_configuration, set, done, prev, calls>>

EncryptApfsVolumeRevert ==
    /\ pc = "revert"
    /\ subject = ENC
    /\ LeafBody("revert", EncryptApfsVolumeRevertSteps,
                FailureSets(Range(EncryptApfsVolumeRevertSteps), 1))

\* ---------------------------------------------------------- serialization
\* An action read back from a plan file written on an earlier run: it has the
\* fields it was written with, it is Uncompleted, and the system is as this
\* run finds it.
DeserializeLeaf(fields) ==
    /\ pc' = "idle"
    /\ this' = fields
    /\ state' = Uncompleted
    /\ origin' = "deserialized"
    /\ UNCHANGED <<system, args, before, receipt, subject, create_directories,
                   create_or_insert_into_files, place_nix_configuration, set,
                   done, errors, idx, result, log, prev, calls>>

\* The plan file is run on a Mac, or on a machine booted with systemd.
DeserializeConfigureInitService ==
    /\ pc = "new"
    /\ subject = CIS
    /\ IF OnMacos(system) THEN TRUE ELSE system.booted /\ system.systemctl
    /\ \E init \in InitSystemsOn(system), start_daemon \in BOOLEAN :
          DeserializeLeaf([init |-> init, start_daemon |-> start_daemon])

DeserializeEncryptApfsVolume ==
    /\ pc = "new"
    /\ subject = ENC
    /\ DeserializeLeaf([planned |-> TRUE])

\* A StatefulAction is written as its action, under the variant's typetag
\* name, and its state.
Serialize ==
    /\ pc = "idle"
    /\ pc' = "serialized"
    /\ receipt' = [receipt EXCEPT !.written = TRUE,
                                  !.action_name = TypetagName(subject),
                                  !.state = state]
    /\ UNCHANGED <<system, args, this, before, subject, origin, state,
                   create_directories, create_or_insert_into_files,
                   place_nix_configuration, set, done, errors, idx, result,
                   log, prev, calls>>

\* The variant typetag builds for a name it reads.
VariantNamed(name) == CHOOSE v \in Variants : TypetagName(v) = name

\* Reading it back: typetag picks the variant registered under the name.
Deserialize ==
    /\ pc = "serialized"
    /\ pc' = "restored"
    /\ receipt' = [receipt EXCEPT !.read = TRUE,
                                  !.variant = VariantNamed(receipt.action_name),
                                  !.restored = receipt.state]
    /\ UNCHANGED <<system, args, this, before, subject, origin, state,
                   create_directories, create_or_insert_into_files,
                   place_nix_configuration, set, done, errors, idx, result,
                   log, prev, calls>>

\* ------------------------------------------------------ the specification
Next ==
    \/ PlanConfigureShellProfile
    \/ DeserializeConfigureShellProfile
    \/ PlanPlaceNixConfiguration
    \/ PlanConfigureInitService
    \/ PlanCreateNixGcService
    \/ PlanCreateNixOptimizeService
    \/ PlanEncryptApfsVolume
    \/ PlanMountApfsVolume
    \/ PlanFetchAndUnpackNix
    \/ PlanMoveUnpackedNix
    \/ TryExecute
    \/ TryRevert
    \/ ExecuteCreateDirectory
    \/ ExecuteSpawn
    \/ TaskExecute
    \/ ExecuteJoinNext
    \/ ExecuteFinish
    \/ TaskRevert
    \/ RevertJoinNext
    \/ RevertJoined
    \/ RevertCreateDirectory
    \/ RevertFinish
    \/ PlaceNixConfigurationExecuteChild
    \/ PlaceNixConfigurationExecuteFinish
    \/ PlaceNixConfigurationRevertChild
    \/ PlaceNixConfigurationRevertFinish
    \/ ConfigureInitServiceExecute
    \/ ConfigureInitServiceRevert
    \/ CreateNixGcServiceExecute
    \/ CreateNixGcServiceRevert
    \/ CreateNixOptimizeServiceExecute
    \/ CreateNixOptimizeServiceRevert
    \/ FetchAndUnpackNixExecute
    \/ FetchAndUnpackNixRevert
    \/ MoveUnpackedNixExecute
    \/ MoveUnpackedNixMoveEntry
    \/ MoveUnpackedNixExecuteFinish
    \/ MoveUnpackedNixRevert
    \/ MountApfsVolumeExecute
    \/ MountApfsVolumeRevert
    \/ EncryptApfsVolumeExecuteStep
    \/ EncryptApfsVolumeRevert
    \/ DeserializeConfigureInitService
    \/ DeserializeEncryptApfsVolume

Spec == Init /\ [][Next]_vars

\* The plan written out and read back before anything is executed: each
\* action is planned, serialized and deserialized.
NextPlanFile ==
    \/ PlanConfigureShellProfile
    \/ PlanPlaceNixConfiguration
    \/ PlanConfigureInitService
    \/ PlanCreateNixGcService
    \/ PlanCreateNixOptimizeService
    \/ PlanEncryptApfsVolume
    \/ PlanMountApfsVolume
    \/ PlanFetchAndUnpackNix
    \/ PlanMoveUnpackedNix
    \/ Serialize
    \/ Deserialize

SpecPlanFile == Init /\ [][NextPlanFile]_vars

\* ================================================================= claims
\* The body of op ran and returned to the driver.
Returned(op) == pc = "idle" /\ result.op = op /\ result.ran
\* The body of op ran and is over: it returned, or a panic unwound it.
Ended(op) == pc \in {"idle", "unwound"} /\ result.op = op /\ result.ran

LogSet == {log[k] : k \in DOMAIN log}
\* File tasks of this call whose try_* did not succeed / did succeed.
FailedTasks == {i \in DOMAIN set : set[i].out \in {"err", "panic"}}
SucceededTasks == {i \in DOMAIN set : set[i].out = "ok"}
\* The ActionErrors a result carries, an aggregate counted by its members.
ErrorsIn(r) ==
    IF r.err = << >> THEN {}
    ELSE IF r.err[1].kind = "MultipleChildren"
         THEN {r.err[1].inner[k] : k \in DOMAIN r.err[1].inner}
         ELSE {r.err[1]}
IsAggregate(r) == r.err /= << >> /\ r.err[1].kind = "MultipleChildren"

\* C1: when ConfigureShellProfile.execute returns, every task it spawned has
\* run to its end, whatever the children's outcomes (Ok, Err, panic), and no
\* task was aborted.
C1_ExecuteJoinsEveryTask ==
    (subject = CSP /\ Returned("execute")) =>
        \A i \in DOMAIN set : set[i].st \in {"finished", "joined"}

\* C2: when K > 1 file children fail in one execute, the returned error is
\* the aggregate holding exactly one error per failed child, K in all, and
\* every other file child is recorded Completed.
C2_AggregateHoldsEveryFailure ==
    (subject = CSP /\ Returned("execute") /\ Cardinality(FailedTasks) > 1) =>
        /\ IsAggregate(result)
        /\ Len(result.err[1].inner) = Cardinality(FailedTasks)
        /\ \A i \in FailedTasks :
              \E k \in DOMAIN result.err[1].inner :
                 result.err[1].inner[k] \in
                     {ChildError("file", i), ExecuteTaskError(i)}
        /\ \A i \in DOMAIN set \ FailedTasks :
              create_or_insert_into_files[i] = Completed

\* C3: when exactly one child fails in ConfigureShellProfile.execute,
\* ConfigureShellProfile.revert or PlaceNixConfiguration.revert, the composite
\* returns that child's own error: not an aggregate, not wrapped in a further
\* ActionError of the composite.
C3_SingleFailureUnwrapped ==
    \A e \in LogSet :
        ( /\ \/ subject = CSP /\ (Returned("execute") \/ Returned("revert"))
             \/ subject = PNC /\ Returned("revert")
          /\ e.out = "err"
          /\ \A f \in LogSet : f.out \in {"err", "panic"} => f = e )
        => result.err = <<ChildError(e.kind, e.i)>>

\* C4: when ConfigureShellProfile.execute returns with file children having
\* failed, every file child whose try_execute succeeded is recorded
\* Completed, every one whose try_execute failed is recorded Uncompleted, the
\* composite is not Completed, and one failure alone gives no aggregate.
C4_PartialFailureStates ==
    (subject = CSP /\ Returned("execute") /\ FailedTasks /= {}) =>
        /\ \A i \in SucceededTasks : create_or_insert_into_files[i] = Completed
        /\ \A i \in FailedTasks : create_or_insert_into_files[i] = Uncompleted
        /\ state /= Completed
        /\ Cardinality(FailedTasks) = 1 => ~IsAggregate(result)

\* C5: after an execute of ConfigureShellProfile in which one file child
\* succeeded and another failed, try_revert on the composite invokes the
\* revert of the child that succeeded (Uncompleted again once that revert
\* succeeds) and skips the revert of the child that failed.
C5_RevertAfterPartialExecute ==
    ( /\ subject = CSP
      /\ pc = "idle"
      /\ result.op = "revert"
      /\ prev.op = "execute" /\ prev.ran /\ ~prev.ok
      /\ \E a, b \in prev.log : /\ a.kind = "file" /\ a.out = "ok"
                               /\ b.kind = "file" /\ b.out = "err" )
    => \A a \in prev.log :
          /\ (a.kind = "file" /\ a.out = "ok") =>
                \E e \in LogSet :
                   /\ e.op = "try_revert" /\ e.kind = "file" /\ e.i = a.i
                   /\ e.out /= "skip"
                   /\ e.out = "ok" =>
                         create_or_insert_into_files[a.i] = Uncompleted
          /\ (a.kind = "file" /\ a.out = "err") =>
                \E e \in LogSet :
                   /\ e.op = "try_revert" /\ e.kind = "file" /\ e.i = a.i
                   /\ e.out = "skip"

\* C6: PlaceNixConfiguration.execute calls try_execute on create_directory
\* before create_or_merge_nix_config, and its revert calls try_revert on
\* create_or_merge_nix_config before create_directory.
C6_PlaceNixConfigurationOrder ==
    subject = PNC =>
        \A j, k \in DOMAIN log :
            j < k =>
               /\ log[j].op = log[k].op
               /\ log[j].op = "try_execute" =>
                     /\ log[j].kind = "create_directory"
                     /\ log[k].kind = "create_or_merge_nix_config"
               /\ log[j].op = "try_revert" =>
                     /\ log[j].kind = "create_or_merge_nix_config"
                     /\ log[k].kind = "create_directory"

\* A revert of PlaceNixConfiguration that has called both children, after an
\* execute that had called both.
C6_Witness ==
    /\ subject = PNC
    /\ Returned("revert")
    /\ Len(log) = 2
    /\ prev.op = "execute"
    /\ Cardinality(prev.log) = 2

\* C7: ConfigureShellProfile.revert calls try_revert on every file child
\* before any CreateDirectory child, and on the CreateDirectory children
\* last-executed-first, the reverse of the list order execute follows.
C7_RevertReversesExecuteOrder ==
    subject = CSP =>
        \A j, k \in DOMAIN log :
            (j < k /\ log[j].op = "try_revert") =>
               /\ log[j].kind = "dir" => log[k].kind = "dir"
               /\ (log[j].kind = "dir" /\ log[k].kind = "dir") =>
                     log[j].i > log[k].i

\* The children a composite owns.
Children ==
    IF subject = CSP
    THEN {<<"dir", i>> : i \in DOMAIN create_directories}
             \cup {<<"file", i>> : i \in DOMAIN create_or_insert_into_files}
    ELSE {<<"create_directory", 0>>, <<"create_or_merge_nix_config", 0>>}

\* C8: when the revert of PlaceNixConfiguration or ConfigureShellProfile
\* returns, try_revert has been called on every child, whether or not another
\* child's revert returned an error or panicked, and every error a child
\* returned is in the result.
C8_RevertAttemptsEveryChild ==
    (subject \in {CSP, PNC} /\ Returned("revert")) =>
        /\ \A c \in Children :
              \E e \in LogSet : e.op = "try_revert" /\ e.kind = c[1] /\ e.i = c[2]
        /\ \A e \in LogSet :
              e.out = "err" => ChildError(e.kind, e.i) \in ErrorsIn(result)

AllChildrenCompleted ==
    IF subject = CSP
    THEN /\ \A i \in DOMAIN create_directories : create_directories[i] = Completed
         /\ \A i \in DOMAIN create_or_insert_into_files :
               create_or_insert_into_files[i] = Completed
    ELSE /\ place_nix_configuration.create_directory = Completed
         /\ place_nix_configuration.create_or_merge_nix_config = Completed

\* C9: once execute of PlaceNixConfiguration or ConfigureShellProfile is
\* over, the composite is Completed exactly when execute returned Ok, then
\* every child is Completed, and a child whose try_execute failed leaves the
\* composite Uncompleted.
C9_CompletedOnlyIfEveryChildCompleted ==
    (subject \in {CSP, PNC} /\ Ended("execute")) =>
        /\ state = Completed <=> result.ok
        /\ state = Completed => AllChildrenCompleted
        /\ (\E e \in LogSet : e.out \in {"err", "panic"}) => state = Uncompleted

\* An execute of ConfigureShellProfile that returned an error with one file
\* child failed and another recorded Completed by this same call.
C9_Witness ==
    /\ subject = CSP
    /\ Returned("execute")
    /\ ~result.ok
    /\ state = Uncompleted
    /\ \E e, f \in LogSet :
          /\ e.kind = "file" /\ e.out = "err"
          /\ f.kind = "file" /\ f.out = "ok"
          /\ create_or_insert_into_files[f.i] = Completed

\* ConfigureShellProfile::plan planned no child at all.
PlannedNoChild ==
    /\ subject = CSP
    /\ origin = "plan"
    /\ pc /= "plan_failed"
    /\ create_directories = << >>
    /\ create_or_insert_into_files = << >>

\* C10 as stated: a ConfigureShellProfile planned with no child is Completed
\* when plan returns.
C10_NoChildPlannedCompleted ==
    (PlannedNoChild /\ calls = 0) => state = Completed

\* C10 amended: a ConfigureShellProfile planned with no child is Uncompleted
\* when plan returns; try_execute on it calls no child, spawns no task,
\* returns Ok and only then is the composite Completed.
C10_NoChildPlannedUncompleted ==
    PlannedNoChild =>
        /\ calls = 0 => state = Uncompleted
        /\ log = << >>
        /\ set = << >>
        /\ (pc = "idle" /\ result.op = "execute") =>
              (result.ok /\ state = Completed)

\* The first try_execute on a composite planned with no child has run the
\* body of execute and returned.
C10_Witness ==
    /\ PlannedNoChild
    /\ calls = 1
    /\ Returned("execute")
    /\ state = Completed

\* The state try_execute finds recorded for the child a log entry is about.
RecordedState(kind, i) ==
    IF kind = "dir" THEN create_directories[i] ELSE create_or_insert_into_files[i]

\* The driver repeats try_execute after an execute that returned an error.
RepeatedExecute ==
    /\ subject = CSP
    /\ pc \in {"execute_directories", "execute_join"}
    /\ prev.op = "execute" /\ prev.ran /\ ~prev.ok

\* C11: when try_execute of ConfigureShellProfile is repeated after an
\* execute that failed partway, every try_execute it makes on a child runs
\* the child's execute exactly when the child is recorded Uncompleted: a
\* child recorded Completed is skipped and stays Completed.
C11_CompletedChildrenNotExecutedAgain ==
    [][ (RepeatedExecute /\ Len(log') = Len(log) + 1) =>
           LET e == log'[Len(log')]
           IN  /\ e.op = "try_execute"
               /\ e.out = "skip" <=> RecordedState(e.kind, e.i) = Completed
               /\ e.out = "skip" =>
                     IF e.kind = "dir" THEN create_directories'[e.i] = Completed
                     ELSE set'[e.i].clone = Completed ]_vars

\* A repeated execute has skipped a file child that the failed execute before
\* it had completed, and has run the execute of another one.
C11_Witness ==
    /\ subject = CSP
    /\ result.op = "execute" /\ result.ran
    /\ prev.op = "execute" /\ prev.ran /\ ~prev.ok
    /\ \E e, f \in LogSet :
          /\ e.kind = "file" /\ e.out = "skip"
          /\ \E p \in prev.log : p.kind = "file" /\ p.i = e.i /\ p.out = "ok"
          /\ f.kind = "file" /\ f.out \in {"ok", "err"}
          /\ \E p \in prev.log : p.kind = "file" /\ p.i = f.i /\ p.out = "err"

\* What each file child's task did in this call, and the child's state when
\* the call began (a skipped try_execute found it Completed).
TaskOutcome(i) == set[i].out
StateAtSpawn(i) ==
    IF \E e \in LogSet : e.kind = "file" /\ e.i = i /\ e.out = "skip"
    THEN Completed ELSE Uncompleted
\* The first task, in spawn order, that panicked; 0 when none did.
FirstPanic ==
    IF \E i \in DOMAIN set : TaskOutcome(i) = "panic"
    THEN CHOOSE i \in DOMAIN set :
            /\ TaskOutcome(i) = "panic"
            /\ \A j \in DOMAIN set : TaskOutcome(j) = "panic" => i <= j
    ELSE 0
\* What execute records and reports for these task outcomes when the tasks
\* finish in spawn order.
InOrderState(i) ==
    IF TaskOutcome(i) = "ok" /\ (FirstPanic = 0 \/ i < FirstPanic)
    THEN Completed ELSE StateAtSpawn(i)
InOrderErrors ==
    IF FirstPanic /= 0 THEN <<JoinErrorOf(CSP, FirstPanic)>>
    ELSE SelectSeq([i \in DOMAIN set |->
                       IF TaskOutcome(i) = "err" THEN ExecuteTaskError(i)
                       ELSE ResultOk],
                   LAMBDA x : x /= ResultOk)
InOrderResult ==
    IF FirstPanic /= 0 THEN ResultErr(JoinErrorOf(CSP, FirstPanic))
    ELSE ConfigureShellProfileExecuteResult(InOrderErrors)

\* C12: when ConfigureShellProfile.execute has returned and every task has
\* run, the recorded state of every file child and the set of reported errors
\* are those of the run in which the tasks finish in spawn order: they depend
\* on the tasks' outcomes only, not on the order in which the tasks finished.
C12_ResultIndependentOfInterleaving ==
    ( /\ subject = CSP
      /\ Returned("execute")
      /\ set /= << >>
      /\ \A i \in DOMAIN set : TaskOutcome(i) /= "none" )
    => /\ \A i \in DOMAIN set : create_or_insert_into_files[i] = InOrderState(i)
       /\ ErrorsIn(result) = ErrorsIn(InOrderResult)

\* C13: every result that reports more than one failure of a single execute
\* or revert call (ConfigureShellProfile.execute and revert,
\* PlaceNixConfiguration.revert, ConfigureInitService.revert) wraps them in
\* one and the same aggregate variant, MultipleChildren.
C13_OneAggregateVariant ==
    ( /\ pc = "idle"
      /\ result.ran
      /\ result.err /= << >>
      /\ Len(result.err[1].inner) > 1 )
    => result.err[1].kind = "MultipleChildren"

\* plan of CreateNixGcService or CreateNixOptimizeService got as far as the
\* plist file and found it to parse to the expected plist; the body of
\* execute has not run since.
PlanFoundEqualPlist ==
    /\ subject \in {GC, OPT}
    /\ origin = "plan"
    /\ args.launchctl_runs
    /\ before.plist /= "absent"
    /\ ParsePlist(before.plist) = GeneratePlist

\* The first call the driver made is a try_execute.
FirstCallIsTryExecute ==
    calls = 1 /\ (pc = "execute" \/ result.op = "execute")

\* C14: when plan of CreateNixGcService or CreateNixOptimizeService finds the
\* plist file present and equal to the expected plist, the action it returns
\* is Completed, and the try_execute that follows returns Ok without running
\* the body: no step (bootout, open, write, chown, bootstrap) is made and the
\* system is as plan found it.
C14_EqualPlistPlannedCompleted ==
    PlanFoundEqualPlist =>
        /\ calls = 0 => (pc = "idle" /\ state = Completed)
        /\ FirstCallIsTryExecute =>
              /\ pc = "idle"
              /\ result.ok /\ ~result.ran
              /\ log = << >>
              /\ system = before
              /\ state = Completed

\* try_execute has returned Ok on a CreateNixGcService planned Completed over
\* a loaded service and a file whose bytes differ from the generated ones.
C14_Witness ==
    /\ subject = GC
    /\ PlanFoundEqualPlist
    /\ FirstCallIsTryExecute
    /\ pc = "idle"
    /\ result.ok
    /\ system.plist = "equivalent"
    /\ this.needs_bootout

\* C15: when the plist file exists and holds a plist different from the
\* expected one, plan of CreateNixGcService and of CreateNixOptimizeService
\* fails with DifferentPlist; and whenever plan fails it produces no action
\* and leaves the file as it was.
C15_DifferentPlistFailsPlan ==
    (subject \in {GC, OPT} /\ origin = "plan" /\ calls = 0) =>
        /\ (args.launchctl_runs /\ ParsePlist(before.plist) = "other_plist") =>
              /\ pc = "plan_failed"
              /\ result.err /= << >>
              /\ result.err[1].kind = "DifferentPlist"
        /\ pc = "plan_failed" =>
              /\ this = NoFields
              /\ system.plist = before.plist

\* plan of CreateNixOptimizeService has failed with DifferentPlist over a
\* file that is still the different one.
C15_Witness ==
    /\ subject = OPT
    /\ pc = "plan_failed"
    /\ result.err /= << >>
    /\ result.err[1].kind = "DifferentPlist"
    /\ system.plist = "different"

\* plan of EncryptApfsVolume has returned, `security find-generic-password`
\* could be run, and the driver has made no call yet.
EncryptApfsVolumePlanned ==
    /\ subject = ENC
    /\ origin = "plan"
    /\ args.security_runs
    /\ calls = 0

\* C16: EncryptApfsVolume.plan, given that the keychain could be queried:
\* with a password and the volume planned as created before it returns the
\* action Completed; with a password and the volume not created before it
\* fails with ExistingPasswordFound; without a password and the volume
\* created before it fails with MissingPasswordForExistingVolume.
C16_PasswordVolumeConflict ==
    EncryptApfsVolumePlanned =>
        LET created == args.planned_create_apfs_volume = Completed
        IN  /\ (system.password /\ created) =>
                  (pc /= "plan_failed" /\ state = Completed)
            /\ (system.password /\ ~created) =>
                  /\ pc = "plan_failed"
                  /\ result.err[1].kind = "ExistingPasswordFound"
            /\ (~system.password /\ created) =>
                  /\ pc = "plan_failed"
                  /\ result.err[1].kind = "MissingPasswordForExistingVolume"

\* plan has failed for a volume created before whose password is missing.
C16_Witness ==
    /\ EncryptApfsVolumePlanned
    /\ ~system.password
    /\ args.planned_create_apfs_volume = Completed
    /\ pc = "plan_failed"

\* C17: once plan of any of the nine actions has returned, with an action or
\* with an error, the target system (files, services, keychain entries,
\* volumes) is as it was before plan.
C17_PlanLeavesSystemAlone ==
    (origin = "plan" /\ calls = 0) => system = before

\* plan of ConfigureInitService has failed over a foreign unit file, which is
\* still there; plan of CreateNixGcService has returned an action.
C17_Witness ==
    \/ /\ subject = CIS
       /\ origin = "plan"
       /\ pc = "plan_failed"
       /\ result.err[1].kind = "FileExists"
       /\ system.service.dest = "file"
    \/ /\ subject = GC
       /\ origin = "plan"
       /\ pc = "idle"
       /\ calls = 0

\* try_revert has run the body of revert and returned Ok, after a try_execute
\* that had run the body of execute and returned Ok.
RoundTrip ==
    /\ origin = "plan"
    /\ Returned("revert") /\ result.ok
    /\ prev.op = "execute" /\ prev.ran /\ prev.ok

\* What can be observed of the init system: both units' enabled and active
\* status, the unit symlinks and the tmpfiles symlink.
Observable(sys) ==
    [socket_enabled |-> IsEnabled(sys.socket), socket_active |-> IsActive(sys.socket),
     service_enabled |-> IsEnabled(sys.service), service_active |-> IsActive(sys.service),
     socket_dest |-> sys.socket.dest, service_dest |-> sys.service.dest,
     tmpfiles |-> sys.tmpfiles]

\* C18: for ConfigureInitService on systemd, after plan, try_execute and
\* try_revert the observable state of the system is that before try_execute,
\* for every initial state plan accepts.
C18_InitServiceRoundTrip ==
    (subject = CIS /\ RoundTrip /\ this.init = "Systemd") =>
        Observable(system) = Observable(before)

\* C19: for CreateNixGcService and CreateNixOptimizeService, after plan,
\* try_execute and try_revert the plist file is absent again and the service
\* is loaded exactly if it was before try_execute.
C19_LaunchdServiceRoundTrip ==
    (subject \in {GC, OPT} /\ RoundTrip) =>
        /\ system.plist = "absent"
        /\ system.loaded = before.loaded

\* C20: the name a variant is serialized under is the variant's action tag,
\* and what is read back is the same variant in the same ActionState.
C20_DiscriminatorIsActionTag ==
    /\ receipt.written => receipt.action_name = ActionTag(subject)
    /\ receipt.read =>
          /\ receipt.variant = subject
          /\ receipt.restored = state

\* The body of execute of ConfigureInitService has run on launchd and is over.
LaunchdExecuteEnded ==
    /\ subject = CIS
    /\ Ended("execute")
    /\ this.init = "Launchd"

\* C21: ConfigureInitService.execute on launchd leaves the source plist under
\* /nix/var/nix/profiles/default with the content it had before execute; its
\* effects are on the copy under ~/Library/LaunchAgents and on the service
\* registration only.
C21_SourcePlistUntouched ==
    LaunchdExecuteEnded => system.src = before.src

\* plan of FetchAndUnpackNix has returned and the driver has made no call yet.
FetchAndUnpackNixPlanned ==
    /\ subject = FETCH
    /\ origin = "plan"
    /\ calls = 0

\* The settings plan of FetchAndUnpackNix refuses.
UrlRefused == args.url \notin {"https", "http", "file", "path"}
ProxyRefused == args.proxy \notin {"none", "https", "http", "socks5"}
CertificateRefused == args.ssl_cert_file /\ ~system.ssl_cert_parses

\* C22: FetchAndUnpackNix.plan fails exactly when the package URL has a scheme
\* other than https, http or file (UnknownUrlScheme), or the proxy has a
\* scheme other than https, http or socks5 (UnknownProxyScheme), or the SSL
\* certificate file does not parse; otherwise it returns the action
\* Uncompleted.  No execute of a planned action ends with UnknownUrlScheme.
C22_PlanRefusesUnknownSchemes ==
    /\ FetchAndUnpackNixPlanned =>
          /\ (pc = "plan_failed") <=> (UrlRefused \/ ProxyRefused \/ CertificateRefused)
          /\ UrlRefused => result.err[1].kind = "UnknownUrlScheme"
          /\ (~UrlRefused /\ ProxyRefused) => result.err[1].kind = "UnknownProxyScheme"
          /\ (~UrlRefused /\ ~ProxyRefused /\ CertificateRefused) =>
                 result.err[1].kind = "Certificate"
          /\ pc = "idle" => (state = Uncompleted /\ result.ok)
    /\ (subject = FETCH /\ origin = "plan" /\ Returned("execute") /\ ~result.ok) =>
          result.err[1].kind /= "UnknownUrlScheme"

\* plan has refused a certificate file that does not parse, given with a URL
\* and a proxy it accepts.
C22_Witness ==
    /\ FetchAndUnpackNixPlanned
    /\ pc = "plan_failed"
    /\ args.url = "https"
    /\ args.proxy = "socks5"
    /\ CertificateRefused

\* C23: the body of revert of FetchAndUnpackNix and of MoveUnpackedNix
\* returns Ok, leaves the system as it is (what execute unpacked or moved
\* stays in place), and the action's revert description is empty.
C23_RevertIsNoOp ==
    [][(pc = "revert" /\ subject \in {FETCH, MOVE}) =>
          /\ system' = system
          /\ pc' = "idle"
          /\ result'.op = "revert" /\ result'.ran /\ result'.ok
          /\ state' = Uncompleted
          /\ FetchAndUnpackNixRevertDescription = << >>
          /\ MoveUnpackedNixRevertDescription = << >>]_vars

\* MoveUnpackedNix has been executed and reverted: the packages are still in
\* /nix/store.
C23_Witness ==
    /\ subject = MOVE
    /\ Returned("revert") /\ result.ok
    /\ prev.op = "execute" /\ prev.ran /\ prev.ok
    /\ system.entries /= << >>
    /\ \A i \in DOMAIN system.entries : system.entries[i].dest = "package"
    /\ state = Uncompleted

\* The step was attempted in the body that ran last.
Attempted(step) == \E k \in DOMAIN log : log[k].kind = step
\* The step was attempted in the body that ran last, and succeeded.
Succeeded(step) == \E k \in DOMAIN log : log[k].kind = step /\ log[k].out = "ok"

\* C24: MountApfsVolume.execute, once it has read the state of the volume,
\* runs `diskutil mount` exactly when the volume is unmounted, and after an
\* execute that returned Ok the volume is mounted.
C24_MountsWhenUnmounted ==
    (subject = MNT /\ Returned("execute") /\ Succeeded("parse_info")) =>
        /\ Attempted("diskutil_mount") <=> ~before.mount_point
        /\ result.ok => system.mount_point

\* C25: when plan of EncryptApfsVolume finds no password in the keychain, the
\* volume was not planned as created before and diskutil lists a volume of
\* the name, then an encrypted volume gives the action Completed and a volume
\* that is not encrypted makes plan fail with ExistingVolumeNotEncrypted.
C25_ExistingVolumeMustBeEncrypted ==
    (/\ EncryptApfsVolumePlanned
     /\ args.diskutil_runs
     /\ ~system.password
     /\ args.planned_create_apfs_volume /= Completed
     /\ system.volume /= "absent") =>
        /\ system.volume = "encrypted" => (pc = "idle" /\ state = Completed)
        /\ system.volume = "plain" =>
              /\ pc = "plan_failed"
              /\ result.err[1].kind = "ExistingVolumeNotEncrypted"

\* C26: execute of EncryptApfsVolume stores the generated password in the
\* keychain before it encrypts the volume: at every point of an execute,
\* failures included, a volume encrypted with the generated password has
\* that password in the keychain.
C26_PasswordStoredBeforeEncrypting ==
    (subject = ENC /\ (pc = "execute" \/ Ended("execute"))) =>
        (system.passphrase = "generated" =>
            /\ system.password
            /\ system.item = "generated")

C26_Witness ==
    /\ subject = ENC
    /\ Returned("execute")
    /\ result.ok
    /\ before.volume = "plain"
    /\ system.volume = "encrypted"
    /\ system.passphrase = "generated"
    /\ system.item = "generated"

\* C27: whenever the execute body of CreateNixGcService or
\* CreateNixOptimizeService runs while the launchd service is loaded, the
\* service is booted out before the plist is opened for rewriting and before
\* the service is bootstrapped, also when the service was loaded after plan.
C27_BootsOutLoadedService ==
    [][(/\ pc = "execute"
        /\ subject \in {GC, OPT}
        /\ system.loaded) =>
           \A k \in DOMAIN log' :
               log'[k].kind \in {"open", "bootstrap"} =>
                   \E j \in 1..(k - 1) : log'[j].kind = "bootout"]_vars

ForeignUnit(unit) == unit.dest \in {"link_other", "file"} \/ unit.dropin

C29_ForeignUnitsKept ==
    (/\ subject = CIS
     /\ Ended("execute")
     /\ this.init = "Systemd") =>
        \A u \in {"service", "socket"} :
            ForeignUnit(before[u]) =>
                /\ ~result.ok
                /\ before[u].dest \in {"link_other", "file"} =>
                       system[u].dest = before[u].dest
                /\ system[u].dropin = before[u].dropin

\* The entries of the log that are failures, in the order they were met.
FailedSteps == SelectSeq(log, LAMBDA e : e.out = "err")

SystemdRevertReturned ==
    /\ subject = CIS
    /\ Returned("revert")
    /\ this.init = "Systemd"

\* C30: revert of ConfigureInitService on systemd returns the error of the
\* first of its four status queries that fails, before any stop, disable or
\* remove step is made.  When the queries succeed, every other step is
\* attempted whatever failed before it: systemd-tmpfiles --remove, the removal
\* of the tmpfiles symlink and daemon-reload always, a stop or disable
\* whenever the unit was active or enabled.  The result carries every
\* failure: none gives Ok, one gives that error, several give an aggregate of
\* them in the order they occurred.
C30_RevertCollectsFailures ==
    SystemdRevertReturned =>
        IF \E k \in DOMAIN log : log[k].kind \in FailFastQueries /\ log[k].out = "err"
        THEN /\ \A k \in DOMAIN log : log[k].kind \in FailFastQueries
             /\ Len(FailedSteps) = 1
             /\ ~result.ok
             /\ result.err[1].id = FailedSteps[1].i
             /\ result.err[1].inner = << >>
        ELSE /\ \A q \in FailFastQueries : Succeeded(q)
             /\ Attempted("tmpfiles_remove")
             /\ Attempted("remove_tmpfiles")
             /\ Attempted("daemon_reload")
             /\ system.socket.active => Attempted("stop_socket")
             /\ IsEnabled(system.socket) => Attempted("disable_socket")
             /\ system.service.active => Attempted("stop_service")
             /\ IsEnabled(system.service) => Attempted("disable_service")
             /\ result.ok <=> FailedSteps = << >>
             /\ Len(FailedSteps) = 1 =>
                   /\ result.err[1].id = FailedSteps[1].i
                   /\ result.err[1].inner = << >>
             /\ Len(FailedSteps) > 1 =>
                   /\ Len(result.err[1].inner) = Len(FailedSteps)
                   /\ \A k \in DOMAIN FailedSteps :
                         result.err[1].inner[k].id = FailedSteps[k].i

C30_Witness ==
    /\ SystemdRevertReturned
    /\ Len(FailedSteps) = 2
    /\ FailedSteps[1].kind = "stop_socket"
    /\ FailedSteps[2].kind = "tmpfiles_remove"
    /\ Succeeded("disable_socket")
    /\ Succeeded("daemon_reload")
    /\ Len(result.err[1].inner) = 2

\* The steps execute_description lists for the action.
Described == Range(ConfigureInitServiceExecuteDescription(this.init, this.start_daemon))

\* C31: for each init system and each start_daemon, the steps that
\* execute_description lists are steps a successful execute has made: on
\* systemd `systemctl daemon-reload` is run whenever it is listed, and on
\* launchd the plist is loaded into launchd only when start_daemon is set
\* (only when the load is listed).
C31_DescriptionMatchesExecute ==
    (/\ subject = CIS
     /\ Returned("execute")
     /\ result.ok) =>
        /\ \A step \in Described : Succeeded(step)
        /\ this.init = "Systemd" =>
              ("daemon_reload" \in Described => Succeeded("daemon_reload"))
        /\ this.init = "Launchd" =>
              (Succeeded("load") => this.start_daemon)

\* A try_execute of MoveUnpackedNix that follows one whose body failed: it is
\* running or has ended.
MoveUnpackedNixRerun ==
    /\ subject = MOVE
    /\ prev.op = "execute"
    /\ prev.ran
    /\ ~prev.ok
    /\ pc \in {"execute", "move_entries"} \/ Ended("execute")

\* C32: running execute of MoveUnpackedNix again after an earlier run failed
\* partway is safe: an entry the earlier run moved into /nix/store is neither
\* deleted nor replaced by a symlink, and when the second run succeeds every
\* entry of the unpacked store is in /nix/store as a directory with its
\* contents.
C32_RerunKeepsMovedEntries ==
    MoveUnpackedNixRerun =>
        /\ \A i \in DOMAIN system.entries :
              before.entries[i].dest = "package" =>
                  system.entries[i].dest = "package"
        /\ (Returned("execute") /\ result.ok) =>
              \A i \in DOMAIN system.entries : system.entries[i].dest = "package"

\* The first try_execute of a planned MoveUnpackedNix has returned.
MoveUnpackedNixFirstExecuteReturned ==
    /\ subject = MOVE
    /\ origin = "plan"
    /\ calls = 1
    /\ Returned("execute")

\* C33: after a successful first execute of MoveUnpackedNix every entry of
\* the unpacked store is in /nix/store under its name, in the place of what
\* had that name there before, and a symlink to it is at the entry's original
\* place.  When the scratch directory does not hold exactly one nix-*
\* directory, execute fails with MalformedBinaryTarball (once the glob has
\* given its paths) and nothing is changed.
C33_EveryEntryMovedAndLinked ==
    MoveUnpackedNixFirstExecuteReturned =>
        /\ result.ok =>
              /\ before.unpacked
              /\ \A i \in DOMAIN system.entries :
                    system.entries[i] = [src |-> "link", dest |-> "package"]
        /\ ~before.unpacked =>
              /\ ~result.ok
              /\ system = before
              /\ Succeeded("glob") =>
                    result.err[1].kind = "MalformedBinaryTarball"

C33_Witness ==
    /\ MoveUnpackedNixFirstExecuteReturned
    /\ result.ok
    /\ Len(system.entries) = 2
    /\ before.entries[1] = [src |-> "dir", dest |-> "other"]
    /\ before.entries[2] = [src |-> "dir", dest |-> "absent"]
    /\ Succeeded("remove_entry")
    /\ \A i \in DOMAIN system.entries :
          system.entries[i] = [src |-> "link", dest |-> "package"]

\* A task for a file-edit child has been spawned by the execute that is
\* running or ran last.
FileEditStarted ==
    /\ pc = "execute_join" \/ Ended("execute")
    /\ set /= << >>

\* A CreateDirectory child failed in the execute that is running or ran last.
CreateDirectoryFailed ==
    /\ pc \in {"execute_directories", "execute_join"} \/ Ended("execute")
    /\ \E k \in DOMAIN log :
          /\ log[k].op = "try_execute"
          /\ log[k].kind = "dir"
          /\ log[k].out \in {"err", "panic"}

\* C34: when plan of ConfigureShellProfile plans the write to the profile
\* file and the file's parent directory does not exist, it plans a
\* CreateDirectory child too; execute starts no file-edit child before every
\* CreateDirectory child is Completed, and none at all when a CreateDirectory
\* child fails.
C34_DirectoriesBeforeFiles ==
    subject = CSP =>
        /\ (/\ origin = "plan"
            /\ pc = "idle"
            /\ calls = 0
            /\ ~system.is_symlink
            /\ ~system.parent_exists) =>
               /\ create_or_insert_into_files /= << >>
               /\ create_directories /= << >>
        /\ FileEditStarted =>
               \A d \in DOMAIN create_directories : create_directories[d] = Completed
        /\ CreateDirectoryFailed =>
               /\ set = << >>
               /\ \A k \in DOMAIN log : log[k].kind /= "file"

C34_Witness ==
    /\ subject = CSP
    /\ origin = "plan"
    /\ ~system.is_symlink
    /\ ~system.parent_exists
    /\ pc = "execute_join"
    /\ Len(create_directories) = 1
    /\ log = <<LogEntry("try_execute", "dir", 1, "ok")>>
    /\ set /= << >>

\* The state file child i had when the tasks of the call were spawned: a
\* task that did not run, or ran without success, has it in its clone still;
\* one that ran with success found the state its try_* does not skip.
SpawnedState(i) ==
    IF set[i].out /= "ok" THEN set[i].clone
    ELSE IF \E e \in LogSet : e.kind = "file" /\ e.i = i /\ e.out = "skip"
         THEN set[i].clone
         ELSE IF result.op = "execute" THEN Uncompleted ELSE Completed

\* C35: after execute or revert of ConfigureShellProfile has returned, slot i
\* of the file-edit children holds the state of the child planned at slot i:
\* the clone of task i when that task was joined with success, the child as
\* it was spawned otherwise, whatever order the tasks finished in; the number
\* of children is the number of tasks.  (An execute that returned at a
\* failing CreateDirectory child spawned no task.)
C35_SlotsKeepTheirChildren ==
    (/\ subject = CSP
     /\ (Returned("execute") /\ ~CreateDirectoryFailed) \/ Returned("revert")) =>
        /\ Len(create_or_insert_into_files) = Len(set)
        /\ \A i \in DOMAIN set :
              create_or_insert_into_files[i] =
                  IF set[i].st = "joined" /\ set[i].out = "ok"
                  THEN set[i].clone
                  ELSE SpawnedState(i)

\* Two tasks finished in the reverse of their spawn order, the second with
\* success and the first with an error.
C35_Witness ==
    /\ subject = CSP
    /\ Returned("execute")
    /\ Len(set) = 2
    /\ Len(log) >= 2
    /\ log[Len(log) - 1] = LogEntry("try_execute", "file", 2, "ok")
    /\ log[Len(log)] = LogEntry("try_execute", "file", 1, "err")
    /\ create_or_insert_into_files = <<Uncompleted, Completed>>

\* The try_execute that follows plan of CreateNixGcService or
\* CreateNixOptimizeService has returned Ok.
ServiceExecutedAfterPlan ==
    /\ subject \in {GC, OPT}
    /\ origin = "plan"
    /\ calls = 1
    /\ pc = "idle"
    /\ result.op = "execute"
    /\ result.ok

\* C36: whenever plan followed by a successful try_execute of
\* CreateNixGcService or CreateNixOptimizeService has returned, the plist file
\* exists with the expected content and the service is loaded in launchd,
\* whatever the file and the service were before.
C36_ServiceInstalledAndLoaded ==
    ServiceExecutedAfterPlan =>
        /\ system.plist /= "absent"
        /\ ParsePlist(system.plist) = GeneratePlist
        /\ system.loaded

====
